---- MODULE Spec2Model ----
(***************************************************************************)
(* Competition automation pipeline (comp-automations-inngest).             *)
(*                                                                         *)
(* The module models the persistent store (table competitions) and the     *)
(* stages that read and write it:                                          *)
(*   - admission              insertToDb            (3.insertdb.ts)        *)
(*   - the cron pipeline      handleCronScraping    (workers/cron-handler) *)
(*   - the trigger endpoint   POST /api/trigger-inngest (index.ts)         *)
(*   - the batch function     processDraftBatchesFn (inngest/index.ts)     *)
(*   - the extraction loop    extractData           (4.data-extraction.ts) *)
(*   - the delivery gate      sendAllToWhatsApp     (6.sending-wa.ts)      *)
(*   - extraction of one post extractSingle         (4.data-extraction.ts) *)
(*   - a source's pipeline    runSourcePipeline     (1.web-scrape.ts)      *)
(*   - the Instagram scrape   scrapeOnce, scrape    (1.ig-scrape.ts)       *)
(*   - the collector          scrapeAllSources      (1.web-scrape.ts)      *)
(*   - relocation of images   uploadToR2            (2.upload-to-r2.ts)    *)
(*   - the filter loop        insertToDb            (3.insertdb.ts)        *)
(*   - a listing page         scrape (1.web-scrape-infolombait.ts)         *)
(*   - normalization          normalize             (4.data-extraction.ts) *)
(*   - the two-pass scrape    scrapeOnce, scrape    (Instagram source)     *)
(*   - one-function workflows competitionWorkflowWeb (inngest/index.ts)    *)
(*                                                                         *)
(* Text values are sequences of tokens (a blank is the token " ") so that  *)
(* trimming is computed.  Null is the one-element sequence <<"null">>.     *)
(***************************************************************************)
EXTENDS Integers, Sequences, FiniteSets, TLC

VARIABLES
    db,        \* table competitions: sequence of rows, row i has id i
    today,     \* CURRENT_DATE of the store, a day number
    last,      \* result of the latest insertToDb call
    cron,      \* state of the running handleCronScraping invocation
    requests,  \* POST requests sent to the trigger endpoint
    events,    \* events sent to the event bus (inngest.send)
    fn,        \* state of the running processDraftBatchesFn invocation
    gate,      \* observations of the delivery gate (sendAllToWhatsApp)
    ex,        \* state of the extractSingle call under study
    scrape,    \* state of the scraping call under study
    upload,    \* state of the uploadToR2 call under study
    admit      \* state of the insertToDb filter loop under study

vars == <<db, today, last, cron, requests, events, fn, gate, ex, scrape, upload, admit>>

----------------------------------------------------------------------------
(* Bounds of the model *)

\* most rows the store holds; a candidate batch is at most as long as the
\* room left in the store
MaxRows == 2

----------------------------------------------------------------------------
(* Text *)

Null == <<"null">>

Blank == <<>>

SP == " "

\* JavaScript truthiness of a string-or-null value
Truthy(s) == s # Null /\ s # Blank

\* s ?? ""
Coalesce(s) == IF s = Null THEN Blank ELSE s

RECURSIVE TrimLeft(_)
TrimLeft(s) == IF s # <<>> /\ Head(s) = SP THEN TrimLeft(Tail(s)) ELSE s

RECURSIVE TrimRight(_)
TrimRight(s) ==
    IF s # <<>> /\ s[Len(s)] = SP THEN TrimRight(SubSeq(s, 1, Len(s) - 1)) ELSE s

\* String.prototype.trim
Trim(s) == TrimRight(TrimLeft(s))

----------------------------------------------------------------------------
(* Rows of table competitions *)

NoDate == [isNull |-> TRUE, day |-> 0]

Date(d) == [isNull |-> FALSE, day |-> d]

\* INSERT INTO competitions (title, description, poster, urlsource, status)
\* VALUES (title, description, poster, urlsource, 'draft') RETURNING id.
\* The columns the statement does not name take the column default (NULL).
NewRow(post, id) ==
    [id              |-> id,
     title           |-> Coalesce(post.title),
     description     |-> Coalesce(post.description),
     poster          |-> Coalesce(post.image),
     urlsource       |-> Coalesce(post.link),
     status          |-> "draft",
     whatsappChannel |-> "null",
     endDate         |-> NoDate]

RECURSIVE InsertRows(_, _)
\* the insert loop: one INSERT per admitted post, ids assigned by the store
InsertRows(d, posts) ==
    IF posts = <<>> THEN d
    ELSE InsertRows(Append(d, NewRow(Head(posts), Len(d) + 1)), Tail(posts))

----------------------------------------------------------------------------
(* Admission: insertToDb *)

\* new Set(existingData.map(r => r.urlsource).filter(Boolean))
ExistingUrls(d) ==
    {d[i].urlsource : i \in {j \in 1..Len(d) : Truthy(d[j].urlsource)}}

\* new Set(existingData.map(r => r.description).filter(Boolean).map(d => d.trim()))
ExistingDescriptions(d) ==
    {Trim(d[i].description) : i \in {j \in 1..Len(d) : Truthy(d[j].description)}}

NoSkips == [skippedUrl |-> 0, skippedDescription |-> 0, skippedDuplication |-> 0]

FilterInit == [filteredPosts |-> <<>>, seenDescriptions |-> {}, skipped |-> NoSkips]

\* FilterStep comparing the description as scraped, without trim()
FilterStep_NoTrim(acc, post, existingUrls, existingDescriptions) ==
    LET urlsource   == Coalesce(post.link)
        description == Coalesce(post.description)
    IN  IF urlsource # Blank /\ urlsource \in existingUrls
        THEN [acc EXCEPT !.skipped.skippedUrl = @ + 1]
        ELSE IF description # Blank /\ description \in existingDescriptions
        THEN [acc EXCEPT !.skipped.skippedDescription = @ + 1]
        ELSE IF description # Blank /\ description \in acc.seenDescriptions
        THEN [acc EXCEPT !.skipped.skippedDuplication = @ + 1]
        ELSE [acc EXCEPT
                !.filteredPosts = Append(@, post),
                !.seenDescriptions =
                    IF description # Blank THEN @ \cup {description} ELSE @]

\* FilterStep comparing a key without testing it for emptiness first
FilterStep_NoGuard(acc, post, existingUrls, existingDescriptions) ==
    LET urlsource   == Coalesce(post.link)
        description == Trim(Coalesce(post.description))
    IN  IF urlsource \in existingUrls
        THEN [acc EXCEPT !.skipped.skippedUrl = @ + 1]
        ELSE IF description \in existingDescriptions
        THEN [acc EXCEPT !.skipped.skippedDescription = @ + 1]
        ELSE IF description \in acc.seenDescriptions
        THEN [acc EXCEPT !.skipped.skippedDuplication = @ + 1]
        ELSE [acc EXCEPT
                !.filteredPosts = Append(@, post),
                !.seenDescriptions = @ \cup {description}]

\* FilterStep that drops a within-batch duplicate without counting it
FilterStep_NoCount(acc, post, existingUrls, existingDescriptions) ==
    LET urlsource   == Coalesce(post.link)
        description == Trim(Coalesce(post.description))
    IN  IF urlsource # Blank /\ urlsource \in existingUrls
        THEN [acc EXCEPT !.skipped.skippedUrl = @ + 1]
        ELSE IF description # Blank /\ description \in existingDescriptions
        THEN [acc EXCEPT !.skipped.skippedDescription = @ + 1]
        ELSE IF description # Blank /\ description \in acc.seenDescriptions
        THEN acc
        ELSE [acc EXCEPT
                !.filteredPosts = Append(@, post),
                !.seenDescriptions =
                    IF description # Blank THEN @ \cup {description} ELSE @]

\* the body of the filter loop for one post
FilterStep(acc, post, existingUrls, existingDescriptions) ==
    LET urlsource   == Coalesce(post.link)
        description == Trim(Coalesce(post.description))
    IN  IF urlsource # Blank /\ urlsource \in existingUrls
        THEN [acc EXCEPT !.skipped.skippedUrl = @ + 1]
        ELSE IF description # Blank /\ description \in existingDescriptions
        THEN [acc EXCEPT !.skipped.skippedDescription = @ + 1]
        ELSE IF description # Blank /\ description \in acc.seenDescriptions
        THEN [acc EXCEPT !.skipped.skippedDuplication = @ + 1]
        ELSE [acc EXCEPT
                !.filteredPosts = Append(@, post),
                !.seenDescriptions =
                    IF description # Blank THEN @ \cup {description} ELSE @]

RECURSIVE FilterLoop(_, _, _, _)
FilterLoop(acc, posts, existingUrls, existingDescriptions) ==
    IF posts = <<>> THEN acc
    ELSE FilterLoop(FilterStep(acc, Head(posts), existingUrls, existingDescriptions),
                    Tail(posts), existingUrls, existingDescriptions)

\* the SELECT of existing keys followed by the filter loop
FilterPosts(d, posts) ==
    FilterLoop(FilterInit, posts, ExistingUrls(d), ExistingDescriptions(d))

\* What one call returns or throws.  kind: "ok" (a DbInsertResult), "nourl"
\* ({success: false, error}), "threw" (the database error rethrown).
InsertOk(n, count, ids, skipped) ==
    [kind |-> "ok", n |-> n, count |-> count, newRecordIds |-> ids, skipped |-> skipped]

InsertNoUrl(n) ==
    [kind |-> "nourl", n |-> n, count |-> 0, newRecordIds |-> <<>>, skipped |-> NoSkips]

InsertThrew(n, skipped) ==
    [kind |-> "threw", n |-> n, count |-> 0, newRecordIds |-> <<>>, skipped |-> skipped]

\* ids of the rows appended to a store of length before
NewIds(before, k) == [i \in 1..k |-> before + i]

\* The failures the environment may inject into one call:
\*   "nourl"   env.DATABASE_URL is not set
\*   "select"  the SELECT of existing keys fails
\*   "insert"  the INSERT statement number inserts + 1 fails
\*   "none"    every statement succeeds
DbFaults ==
    {[kind |-> k, inserts |-> 0] : k \in {"none", "nourl", "select"}}
        \cup {[kind |-> "insert", inserts |-> i] : i \in 0..(MaxRows - 1)}

NoFaults == [kind |-> "none", inserts |-> 0]

\* insertToDb(posts, env) run to completion against store d
InsertToDb(d, posts, f) ==
    IF f.kind = "nourl" THEN [db |-> d, res |-> InsertNoUrl(Len(posts))]
    ELSE IF f.kind = "select" THEN [db |-> d, res |-> InsertThrew(Len(posts), NoSkips)]
    ELSE
      LET acc == FilterPosts(d, posts)
          k   == Len(acc.filteredPosts)
      IN  IF k = 0
          THEN [db |-> d, res |-> InsertOk(Len(posts), 0, <<>>, acc.skipped)]
          ELSE IF f.kind = "insert" /\ f.inserts < k
          THEN [db  |-> InsertRows(d, SubSeq(acc.filteredPosts, 1, f.inserts)),
                res |-> InsertThrew(Len(posts), acc.skipped)]
          ELSE [db  |-> InsertRows(d, acc.filteredPosts),
                res |-> InsertOk(Len(posts), k, NewIds(Len(d), k), acc.skipped)]

----------------------------------------------------------------------------
(* Candidates handed to admission *)

U1 == <<"u1">>

U2 == <<"u2">>

Links == {Null, U1, U2}

\* no description, whitespace only, "a", " a" (equal to "a" once trimmed), "b"
Descriptions == {Null, <<SP>>, <<"a">>, <<SP, "a">>, <<"b">>}

Candidates ==
    [title : {Null}, description : Descriptions, image : {<<"img">>}, link : Links]

\* the batches of at most n candidates
Batches(n) == UNION {[1..k -> Candidates] : k \in 0..n}

----------------------------------------------------------------------------
(* The scheduled scraping run: handleCronScraping, runParallelPipelines and
   the trigger endpoint *)

\* the pipelines started by runParallelPipelines, in the order of
\* pipelinePromises
SourceNames == <<"instagram", "infolombaid", "infolombait">>

Sources == 1..Len(SourceNames)

\* runSourcePipeline(source, scrapeFn, env, isWebSource): only the Instagram
\* pipeline is started with isWebSource = false
IsWebSource(i) == SourceNames[i] # "instagram"

\* what the scrapers return after upload: two posts, each with its own link
\* and caption
Scraped ==
    {c \in Candidates : <<c.link, c.description>> \in {<<U1, <<"a">>>>, <<U2, <<"b">>>>}}

ScrapeResults(n) == UNION {[1..k -> Scraped] : k \in 0..n}

\* a pipeline: pc is its position in runSourcePipeline / insertToDb
PipeIdle ==
    [pc |-> "idle", posts |-> <<>>, scraped |-> 0, filteredPosts |-> <<>>, admitted |-> 0,
     newRecordIds |-> <<>>, errors |-> FALSE]

PipeStart == [PipeIdle EXCEPT !.pc = "scrape"]

\* the PipelineResult of a pipeline that ended without record ids
PipeFailed(p) ==
    [p EXCEPT !.pc = "done", !.posts = <<>>, !.filteredPosts = <<>>,
              !.newRecordIds = <<>>, !.errors = TRUE]

\* a pipeline whose scrape returned posts
Scrape(p, posts) == [p EXCEPT !.pc = "select", !.posts = posts, !.scraped = Len(posts)]

\* a pipeline whose insertToDb returned without inserting
PipeNoInsert(p) == [p EXCEPT !.pc = "done", !.posts = <<>>]

RECURSIVE PendingInserts(_, _)
PendingInserts(pipes, i) ==
    IF i = 0 THEN 0 ELSE Len(pipes[i].filteredPosts) + PendingInserts(pipes, i - 1)

\* runParallelPipelines keeps the ids of the first pipeline only
TotalNewRecordIds_FirstOnly(pipes, i) ==
    IF i = 0 THEN <<>> ELSE pipes[1].newRecordIds

\* totalNewRecordIds.push(...result.newRecordIds) over the outcomes, in order
RECURSIVE TotalNewRecordIds(_, _)
TotalNewRecordIds(pipes, i) ==
    IF i = 0 THEN <<>> ELSE TotalNewRecordIds(pipes, i - 1) \o pipes[i].newRecordIds

\* the trigger is skipped for no result at all
SkipTrigger_Never(totalNewRecordIds) == FALSE

\* if (totalNewRecordIds.length === 0) return without triggering
SkipTrigger(totalNewRecordIds) == Len(totalNewRecordIds) = 0

\* allErrors.push(...result.errors) over the outcomes, in order: an error
\* message is written as the name of the source whose pipeline produced it
RECURSIVE AllErrors(_, _)
AllErrors(pipes, i) ==
    IF i = 0 THEN <<>>
    ELSE AllErrors(pipes, i - 1) \o (IF pipes[i].errors THEN <<SourceNames[i]>> ELSE <<>>)

\* errors is the error list of the returned summary (empty when the summary
\* has no such field)
CronIdle ==
    [pc |-> "idle", hasDbUrl |-> TRUE, before |-> 0, pipes |-> [i \in Sources |-> PipeIdle],
     totalNewRecordIds |-> <<>>, response |-> "none", success |-> FALSE,
     errors |-> <<>>]

----------------------------------------------------------------------------
(* Idle values of the parts a specification does not exercise *)

NoInsert == [kind |-> "none", n |-> 0, count |-> 0, newRecordIds |-> <<>>,
             skipped |-> NoSkips]

FnIdle ==
    [pc |-> "idle", env |-> [DATABASE_URL |-> Null, WAHA_API_KEY |-> Null],
     recordIds |-> <<>>, steps |-> <<>>, gateCalls |-> 0]

GateIdle ==
    [pc |-> "idle", queried |-> FALSE, comps |-> <<>>, sends |-> <<>>, failed |-> {},
     failedBefore |-> {}, sent |-> 0, skipped |-> 0, threw |-> FALSE,
     opened |-> 0, closed |-> 0]

\* no extractSingle call under study
ExIdle == [pc |-> "idle"]

\* no scraping call under study
ScrapeIdle == [pc |-> "idle"]

\* no uploadToR2 call under study
UploadIdle == [pc |-> "idle"]

\* no filter loop under study
AdmitIdle == [pc |-> "idle"]

----------------------------------------------------------------------------
(* SpecAdmit: admission runs executed one after another on one store *)

InitAdmit ==
    /\ db = <<>>
    /\ today = 1
    /\ last = NoInsert
    /\ cron = CronIdle
    /\ requests = <<>>
    /\ events = <<>>
    /\ fn = FnIdle
    /\ gate = GateIdle
    /\ ex = ExIdle
    /\ scrape = ScrapeIdle
    /\ upload = UploadIdle
    /\ admit = AdmitIdle

\* one whole insertToDb call
AdmissionRun ==
    \E posts \in Batches(MaxRows - Len(db)), f \in DbFaults :
        /\ LET r == InsertToDb(db, posts, f)
           IN  /\ db' = r.db
               /\ last' = r.res
        /\ UNCHANGED <<today, cron, requests, events, fn, gate, ex, scrape, upload, admit>>

NextAdmit == AdmissionRun

SpecAdmit == InitAdmit /\ [][NextAdmit]_vars

----------------------------------------------------------------------------
(* Claims about admission *)

RowIds == 1..Len(db)

\* C1: after any sequence of admission runs executed one after another, no
\* two persisted records have the same non-empty urlsource.
C1_UrlsUnique ==
    \A i, j \in RowIds :
        (i # j /\ Truthy(db[i].urlsource)) => db[i].urlsource # db[j].urlsource

\* C2: after any sequence of admission runs executed one after another, no
\* two persisted records have the same non-empty description, descriptions
\* being compared after trimming surrounding whitespace.
C2_DescriptionsUnique ==
    \A i, j \in RowIds :
        (i # j /\ Trim(db[i].description) # Blank)
            => Trim(db[i].description) # Trim(db[j].description)

\* a run has rejected a candidate whose trimmed description is already in the
\* store, next to the row that holds it
C2_Witness ==
    /\ last.kind = "ok"
    /\ last.skipped.skippedDescription + last.skipped.skippedDuplication >= 1
    /\ \E i \in RowIds : Trim(db[i].description) # Blank

\* C3: for every batch insertToDb returns a result for, the admitted count
\* plus skippedUrl, skippedDescription and skippedDuplication equals the
\* number of input candidates.
C3_Accounting ==
    last.kind = "ok" =>
        last.count + last.skipped.skippedUrl + last.skipped.skippedDescription
            + last.skipped.skippedDuplication = last.n

\* a run that admitted one candidate and rejected another
C3_Witness ==
    /\ last.kind = "ok"
    /\ last.count >= 1
    /\ last.skipped.skippedUrl + last.skipped.skippedDescription
           + last.skipped.skippedDuplication >= 1

----------------------------------------------------------------------------
(* SpecCron: scheduled scraping runs, one at a time, on one store.  requests
   and events hold what the running invocation has sent so far. *)

InitCron ==
    /\ db = <<>>
    /\ today = 1
    /\ last = NoInsert
    /\ cron = CronIdle
    /\ requests = <<>>
    /\ events = <<>>
    /\ fn = FnIdle
    /\ gate = GateIdle
    /\ ex = ExIdle
    /\ scrape = ScrapeIdle
    /\ upload = UploadIdle
    /\ admit = AdmitIdle

\* handleCronScraping is invoked and runParallelPipelines starts the pipelines
CronStart ==
    /\ cron.pc \in {"idle", "done"}
    /\ \E hasDbUrl \in BOOLEAN :
         cron' = [CronIdle EXCEPT !.pc = "pipelines", !.hasDbUrl = hasDbUrl,
                                  !.before = Len(db),
                                  !.pipes = [i \in Sources |-> PipeStart]]
    /\ requests' = <<>>
    /\ events' = <<>>
    /\ UNCHANGED <<db, today, last, fn, gate, ex, scrape, upload, admit>>

\* runSourcePipeline: one call of scrapeFn (and the upload of its posts)
\* returns.  A web source scrapes again until it gets posts (the retry leaves
\* the pipeline where it is); the Instagram source ends the pipeline on an
\* exception or on zero posts.
PipelineScrape(i) ==
    /\ cron.pc = "pipelines"
    /\ cron.pipes[i].pc = "scrape"
    /\ \E threw \in BOOLEAN, posts \in ScrapeResults(MaxRows - Len(db)) :
         LET p == cron.pipes[i]
         IN  IF IsWebSource(i)
             THEN IF ~threw /\ Len(posts) > 0
                  THEN cron' = [cron EXCEPT !.pipes[i] = Scrape(p, posts)]
                  ELSE cron' = cron
             ELSE IF threw
                  THEN cron' = [cron EXCEPT !.pipes[i] = PipeFailed(p)]
                  ELSE IF Len(posts) = 0
                  THEN cron' = [cron EXCEPT !.pipes[i].pc = "done"]
                  ELSE cron' = [cron EXCEPT !.pipes[i] = Scrape(p, posts)]
    /\ UNCHANGED <<db, today, last, requests, events, fn, gate, ex, scrape, upload, admit>>

\* insertToDb up to the end of the filter loop: the SELECT of existing keys
\* returns (or fails) and the posts are filtered against it
PipelineSelect(i) ==
    /\ cron.pc = "pipelines"
    /\ cron.pipes[i].pc = "select"
    /\ \E threw \in BOOLEAN :
         LET p   == cron.pipes[i]
             acc == FilterPosts(db, p.posts)
         IN  IF ~cron.hasDbUrl
             THEN cron' = [cron EXCEPT !.pipes[i] = PipeNoInsert(p)]
             ELSE IF threw
             THEN cron' = [cron EXCEPT !.pipes[i] = PipeFailed(p)]
             ELSE IF Len(acc.filteredPosts) = 0
             THEN cron' = [cron EXCEPT !.pipes[i] = PipeNoInsert(p)]
             ELSE /\ Len(db) + PendingInserts(cron.pipes, Len(SourceNames))
                        + Len(acc.filteredPosts) <= MaxRows
                  /\ cron' = [cron EXCEPT !.pipes[i] =
                                [p EXCEPT !.pc = "insert", !.posts = <<>>,
                                          !.filteredPosts = acc.filteredPosts,
                                          !.admitted = Len(acc.filteredPosts)]]
    /\ UNCHANGED <<db, today, last, requests, events, fn, gate, ex, scrape, upload, admit>>

\* one iteration of the insert loop of insertToDb: the INSERT returns the new
\* id, or fails and the pipeline ends without record ids
PipelineInsert(i) ==
    /\ cron.pc = "pipelines"
    /\ cron.pipes[i].pc = "insert"
    /\ \E threw \in BOOLEAN :
         LET p == cron.pipes[i]
         IN  IF threw
             THEN /\ cron' = [cron EXCEPT !.pipes[i] = PipeFailed(p)]
                  /\ db' = db
             ELSE /\ db' = InsertRows(db, <<Head(p.filteredPosts)>>)
                  /\ cron' = [cron EXCEPT !.pipes[i] =
                                [p EXCEPT !.filteredPosts = Tail(@),
                                          !.newRecordIds = Append(@, Len(db) + 1),
                                          !.pc = IF Len(p.filteredPosts) = 1
                                                 THEN "done" ELSE "insert"]]
    /\ UNCHANGED <<today, last, requests, events, fn, gate, ex, scrape, upload, admit>>

\* handleCronScraping after Promise.allSettled: collect the ids, return when
\* there are none, else POST them to the trigger endpoint (the fetch may fail
\* before the request is delivered)
CronCollect ==
    /\ cron.pc = "pipelines"
    /\ \A i \in Sources : cron.pipes[i].pc = "done"
    /\ LET totalNewRecordIds == TotalNewRecordIds(cron.pipes, Len(SourceNames))
       IN  IF SkipTrigger(totalNewRecordIds)
           THEN /\ cron' = [cron EXCEPT !.pc = "done", !.success = TRUE,
                                               !.errors = <<>>]
                /\ requests' = requests
           ELSE \E delivered \in BOOLEAN :
                  IF delivered
                  THEN /\ cron' = [cron EXCEPT !.pc = "trigger",
                                               !.totalNewRecordIds = totalNewRecordIds]
                       /\ requests' = Append(requests,
                                        [recordIds |-> totalNewRecordIds,
                                         source |-> "parallel-scrape"])
                  ELSE /\ cron' = [cron EXCEPT !.pc = "done", !.success = FALSE,
                                               !.errors = <<"fetch failed">>]
                       /\ requests' = requests
    /\ UNCHANGED <<db, today, last, events, fn, gate, ex, scrape, upload, admit>>

\* POST /api/trigger-inngest: validate recordIds, send process/batches.start
TriggerInngest ==
    /\ cron.pc = "trigger"
    /\ LET body == requests[Len(requests)]
       IN  IF Len(body.recordIds) = 0
           THEN /\ cron' = [cron EXCEPT !.pc = "response", !.response = "400"]
                /\ events' = events
           ELSE \E sent \in BOOLEAN :
                  IF sent
                  THEN /\ events' = Append(events,
                                      [name |-> "process/batches.start",
                                       recordIds |-> body.recordIds,
                                       source |-> body.source])
                       /\ cron' = [cron EXCEPT !.pc = "response", !.response = "ok"]
                  ELSE /\ events' = events
                       /\ cron' = [cron EXCEPT !.pc = "response", !.response = "500"]
    /\ UNCHANGED <<db, today, last, requests, fn, gate, ex, scrape, upload, admit>>

\* handleCronScraping after the fetch: !triggerResult.ok reports a failure
\* with allErrors and the trigger's status, else success with allErrors
CronTriggerResult ==
    /\ cron.pc = "response"
    /\ LET allErrors == AllErrors(cron.pipes, Len(SourceNames))
       IN  cron' = [cron EXCEPT !.pc = "done", !.success = (cron.response = "ok"),
                                !.errors = IF cron.response = "ok" THEN allErrors
                                           ELSE allErrors \o <<"Inngest trigger failed">>]
    /\ UNCHANGED <<db, today, last, requests, events, fn, gate, ex, scrape, upload, admit>>

NextCron ==
    \/ CronStart
    \/ \E i \in Sources : PipelineScrape(i)
    \/ \E i \in Sources : PipelineSelect(i)
    \/ \E i \in Sources : PipelineInsert(i)
    \/ CronCollect
    \/ TriggerInngest
    \/ CronTriggerResult

SpecCron == InitCron /\ [][NextCron]_vars

\* the steps of a run that are taken once they can be: the Instagram scrape
\* (its retries are bounded), the queries of insertToDb, the collection after
\* Promise.allSettled and the trigger request.  Nothing makes a web source
\* answer with posts: its scrape may fail for ever.
SpecCronLive ==
    /\ SpecCron
    /\ \A i \in Sources : ~IsWebSource(i) => WF_vars(PipelineScrape(i))
    /\ \A i \in Sources : WF_vars(PipelineSelect(i)) /\ WF_vars(PipelineInsert(i))
    /\ WF_vars(CronCollect)
    /\ WF_vars(TriggerInngest)
    /\ WF_vars(CronTriggerResult)

----------------------------------------------------------------------------
(* Claims about the scheduled run *)

Range(seq) == {seq[k] : k \in 1..Len(seq)}

NoRepeats(seq) == \A k, l \in 1..Len(seq) : k # l => seq[k] # seq[l]

\* the filter of every insertToDb call of the run admitted no candidate
AdmittedNone == \A i \in Sources : cron.pipes[i].admitted = 0

\* the ids returned by the insertToDb calls of the run
AdmittedIds == UNION {Range(cron.pipes[i].newRecordIds) : i \in Sources}

\* C4: while the admission of a scheduled run has admitted no candidate, and
\* in particular when the run has ended that way, no row was inserted by the
\* run, no trigger request was sent and no process/batches.start event was
\* emitted.
C4_NoAdmissionNoTrigger ==
    (cron.pc # "idle" /\ AdmittedNone) =>
        /\ Len(db) = cron.before
        /\ requests = <<>>
        /\ events = <<>>

\* a run has ended in which posts were scraped and all of them were skipped
C4_Witness ==
    /\ cron.pc = "done"
    /\ cron.hasDbUrl
    /\ AdmittedNone
    /\ \E i \in Sources : cron.pipes[i].scraped > 0 /\ ~cron.pipes[i].errors
    /\ cron.success

----------------------------------------------------------------------------
(* The delivery gate: sendAllToWhatsApp, fetchDraftCompetitions,
   sendCompetitions and sendSingleCompetition *)

\* the WHERE clause without the condition on whatsappChannel
Selectable_IgnoreDelivered(row, day) ==
    /\ row.title # Null
    /\ row.title # Blank
    /\ row.poster # Null
    /\ row.poster # Blank
    /\ (row.endDate.isNull \/ row.endDate.day >= day)

\* the WHERE clause without the condition on endDate
Selectable_NoDateCheck(row, day) ==
    /\ row.whatsappChannel \in {"false", "null"}
    /\ row.title # Null
    /\ row.title # Blank
    /\ row.poster # Null
    /\ row.poster # Blank

\* the WHERE clause of fetchDraftCompetitions evaluated on CURRENT_DATE = day
Selectable(row, day) ==
    /\ row.whatsappChannel \in {"false", "null"}
    /\ row.title # Null
    /\ row.title # Blank
    /\ row.poster # Null
    /\ row.poster # Blank
    /\ (row.endDate.isNull \/ row.endDate.day >= day)

\* the ids selected by fetchDraftCompetitions, ORDER BY id ASC
FetchDraftCompetitions(d, day) ==
    SelectSeq([i \in 1..Len(d) |-> i], LAMBDA i : Selectable(d[i], day))

WHATSAPP_CHANNEL_ID == <<"120363421736160206@g.us">>

\* the waConfig literal built by sendCompetitions: it has channelId and no
\* channelIds
WaConfig(env) ==
    [baseUrl |-> <<"waha">>, apiKey |-> env.WAHA_API_KEY, sessionId |-> <<"session">>,
     channelId |-> WHATSAPP_CHANNEL_ID]

\* waConfig.channelIds is undefined unless the literal carries the property
HasChannelIds(waConfig) == "channelIds" \in DOMAIN waConfig

\* what the channel API answers to one sendImage call
Responses == {"ok", "nonok", "rejected"}

\* what can happen to the calls made by one sendSingleCompetition: one
\* response per entry of channelIds, and the UPDATE succeeding or failing.
\* With channelIds undefined no call is made.
SendOutcomes(waConfig) ==
    IF HasChannelIds(waConfig)
    THEN [responses : [1..Len(waConfig.channelIds) -> Responses], updateOk : BOOLEAN]
    ELSE {[responses |-> <<>>, updateOk |-> TRUE]}

\* the sendImage calls made for one competition: chat id and response
SendsOf(waConfig, o) ==
    IF HasChannelIds(waConfig)
    THEN [k \in 1..Len(waConfig.channelIds) |->
            [chatId |-> waConfig.channelIds[k], response |-> o.responses[k]]]
    ELSE <<>>

\* sendSingleCompetition marks the record although reading channelIds threw
SendSingleCompetition_MarkOnThrow(waConfig, o) ==
    IF ~HasChannelIds(waConfig) THEN "delivered"
    ELSE IF \E k \in 1..Len(waConfig.channelIds) : o.responses[k] # "ok" THEN "threw"
    ELSE IF ~o.updateOk THEN "threw"
    ELSE "delivered"

\* sendSingleCompetition: reading waConfig.channelIds.length throws when
\* channelIds is undefined; a rejected or non-OK send throws; the UPDATE of
\* whatsappChannel is the last statement
SendSingleCompetition(waConfig, o) ==
    IF ~HasChannelIds(waConfig) THEN "threw"
    ELSE IF \E k \in 1..Len(waConfig.channelIds) : o.responses[k] # "ok" THEN "threw"
    ELSE IF ~o.updateOk THEN "threw"
    ELSE "delivered"

\* the loop of sendCompetitions from competition number k on
RECURSIVE SendLoop(_, _, _, _, _)
SendLoop(acc, comps, waConfig, outs, k) ==
    IF k > Len(comps) THEN acc
    ELSE LET id  == comps[k]
             res == SendSingleCompetition(waConfig, outs[k])
             nxt == IF res = "delivered"
                    THEN [acc EXCEPT !.db[id].whatsappChannel = "true",
                                     !.sent = @ + 1,
                                     !.sends = Append(@, SendsOf(waConfig, outs[k]))]
                    ELSE [acc EXCEPT !.skipped = @ + 1,
                                     !.failed = @ \cup {id},
                                     !.sends = Append(@, SendsOf(waConfig, outs[k]))]
         IN  SendLoop(nxt, comps, waConfig, outs, k + 1)

\* sendCompetitions(comps, env)
SendCompetitions(d, comps, env, outs) ==
    LET waConfig == WaConfig(env)
        start    == [db |-> d, sent |-> 0, skipped |-> 0, failed |-> {}, sends |-> <<>>]
    IN  IF ~Truthy(env.DATABASE_URL) THEN start
        ELSE IF ~Truthy(waConfig.apiKey) THEN [start EXCEPT !.skipped = Len(comps)]
        ELSE SendLoop(start, comps, waConfig, outs, 1)

\* the environments a run may be given
Envs == [DATABASE_URL : {Null, <<"postgres">>}, WAHA_API_KEY : {Null, <<"key">>}]

----------------------------------------------------------------------------
(* SpecDelivery: delivery gate runs, one at a time, on a store filled by
   earlier admission and extraction, while the calendar advances *)

LastDay == 2

\* rows as admission, extraction and earlier deliveries may have left them
\* (insertToDb stores "" for a missing title or poster); day 1 is the first
\* CURRENT_DATE of the behaviour
StoredRows ==
    [id : {0}, title : {Blank, <<"t">>}, description : {Blank},
     poster : {Blank, <<"img">>}, urlsource : {U1}, status : {"draft"},
     whatsappChannel : {"null", "false", "true"}, endDate : {NoDate, Date(1)}]

Stores(n) ==
    UNION {{[i \in 1..k |-> [f[i] EXCEPT !.id = i]] : f \in [1..k -> StoredRows]} : k \in 0..n}

InitDelivery ==
    /\ db \in Stores(MaxRows)
    /\ today = 1
    /\ last = NoInsert
    /\ cron = CronIdle
    /\ requests = <<>>
    /\ events = <<>>
    /\ fn = FnIdle
    /\ gate = GateIdle
    /\ ex = ExIdle
    /\ scrape = ScrapeIdle
    /\ upload = UploadIdle
    /\ admit = AdmitIdle

\* the connections sendCompetitions opens, each closed by its finally: none
\* when it returns before postgres(...)
SendConnections(env) ==
    IF Truthy(env.DATABASE_URL) /\ Truthy(WaConfig(env).apiKey) THEN 1 ELSE 0

\* sendAllToWhatsApp(env) run to completion: its effect on the store and
\* what the run did; opened and closed count the connections of the run: the
\* catch block and the path to sendCompetitions call sql.end(), the return
\* on an empty selection does not
GateRun(env, fetchThrew) ==
    LET start == [GateIdle EXCEPT !.pc = "done", !.failedBefore = gate.failed]
        comps == FetchDraftCompetitions(db, today)
    IN  IF ~Truthy(env.DATABASE_URL)
        THEN gate' = start /\ db' = db
        ELSE IF fetchThrew
        THEN gate' = [start EXCEPT !.threw = TRUE, !.opened = 1, !.closed = 1] /\ db' = db
        ELSE IF Len(comps) = 0
        THEN gate' = [start EXCEPT !.queried = TRUE, !.opened = 1] /\ db' = db
        ELSE \E outs \in [1..Len(comps) -> SendOutcomes(WaConfig(env))] :
               LET r == SendCompetitions(db, comps, env, outs)
               IN  /\ db' = r.db
                   /\ gate' = [start EXCEPT !.queried = TRUE, !.comps = comps,
                                            !.sends = r.sends, !.failed = r.failed,
                                            !.sent = r.sent, !.skipped = r.skipped,
                                            !.opened = 1 + SendConnections(env),
                                            !.closed = 1 + SendConnections(env)]

\* one whole sendAllToWhatsApp(env) call
DeliveryRun ==
    /\ \E env \in Envs, fetchThrew \in BOOLEAN : GateRun(env, fetchThrew)
    /\ UNCHANGED <<today, last, cron, requests, events, fn, ex, scrape, upload, admit>>

\* midnight: CURRENT_DATE of the store advances
NextDay ==
    /\ today < LastDay
    /\ today' = today + 1
    /\ UNCHANGED <<db, last, cron, requests, events, fn, gate, ex, scrape, upload, admit>>

NextDelivery ==
    \/ DeliveryRun
    \/ NextDay

SpecDelivery == InitDelivery /\ [][NextDelivery]_vars

----------------------------------------------------------------------------
(* Claims about the delivery gate *)

\* the channels the delivery is configured for
ConfiguredChannels == {WHATSAPP_CHANNEL_ID}

\* every configured channel got a send and every send was answered OK
AllChannelsOk(sends) ==
    /\ \A c \in ConfiguredChannels :
         \E j \in 1..Len(sends) : sends[j].chatId = c /\ sends[j].response = "ok"
    /\ \A j \in 1..Len(sends) : sends[j].response = "ok"

\* the flag of a row becomes true only in a run that selected the row and got
\* an OK answer from every configured channel
C6_MarkedOnlyAfterAllSent ==
    \A id \in 1..Len(db) :
        (db'[id].whatsappChannel = "true" /\ db[id].whatsappChannel # "true") =>
            \E k \in 1..Len(gate'.comps) :
                /\ gate'.comps[k] = id
                /\ k <= Len(gate'.sends)
                /\ AllChannelsOk(gate'.sends[k])

\* a record with a rejected or non-OK send counts as failed, and a failed
\* record is left exactly as it was, its flag not true
C6_FailureLeavesRecord ==
    /\ \A k \in 1..Len(gate'.sends) :
         (\E j \in 1..Len(gate'.sends[k]) : gate'.sends[k][j].response # "ok")
             => gate'.comps[k] \in gate'.failed
    /\ \A id \in gate'.failed :
         /\ db'[id] = db[id]
         /\ db'[id].whatsappChannel # "true"

\* a step is a gate run that performed the selection
GateSelected == gate' # gate /\ gate'.queried

C7_SelectsExactlyEligible ==
    [][GateSelected =>
        /\ Range(gate'.comps) =
             {i \in 1..Len(db) :
                /\ db[i].whatsappChannel # "true"
                /\ Len(Coalesce(db[i].title)) > 0
                /\ Len(Coalesce(db[i].poster)) > 0
                /\ (db[i].endDate.isNull \/ ~(db[i].endDate.day < today))}
        /\ NoRepeats(gate'.comps)
        /\ Len(gate'.sends) <= Len(gate'.comps)]_vars

\* a run selected a row and left out an undelivered row with title and poster
\* whose endDate is past
C7_Witness ==
    /\ gate.pc = "done"
    /\ gate.queried
    /\ gate.comps # <<>>
    /\ \E i \in RowIds :
         /\ i \notin Range(gate.comps)
         /\ db[i].whatsappChannel # "true"
         /\ Truthy(db[i].title)
         /\ Truthy(db[i].poster)
         /\ ~db[i].endDate.isNull
         /\ db[i].endDate.day < today

----------------------------------------------------------------------------
(* The batch-processing function: processDraftBatchesFn, its steps run by the
   step engine, and extractData *)

\* concurrency: 1 in the options of processDraftBatchesFn: the engine executes
\* at most this many steps of the function at a time
Concurrency == 1

batchSize == 2

\* chunk(array, size) keeping only the groups that are full
chunk_FullOnly(array, size) ==
    [k \in 1..(Len(array) \div size) |-> SubSeq(array, (k - 1) * size + 1, k * size)]

\* chunk(array, size)
RECURSIVE chunk(_, _)
chunk(array, size) ==
    IF array = <<>> THEN <<>>
    ELSE IF Len(array) <= size THEN <<array>>
    ELSE <<SubSeq(array, 1, size)>> \o chunk(SubSeq(array, size + 1, Len(array)), size)

\* the engine starts a planned step whatever the number of running steps
CanStart_Unlimited(running) == TRUE

\* the engine starts a planned step only below the concurrency limit
CanStart(running) == running < Concurrency

\* what extractSingle hands back for one post: it throws, it reports no valid
\* data, or it returns the merged aiAnalysis
AiNone == [title |-> Null, endDate |-> NoDate]

AiResults == {AiNone, [AiNone EXCEPT !.title = <<"T">>],
              [title |-> <<"T">>, endDate |-> Date(1)]}

ExtractOutcomes ==
    {[kind |-> k, ai |-> AiNone] : k \in {"threw", "invalid"}}
        \cup {[kind |-> "ok", ai |-> a] : a \in AiResults}

\* buildUpdateObject(ai): the fields that are present, as the columns to set
BuildUpdateObject(ai) ==
    (IF Truthy(ai.title) THEN {"title"} ELSE {})
        \cup (IF ~ai.endDate.isNull THEN {"endDate"} ELSE {})

\* UPDATE competitions SET updates WHERE id = id
UpdateRow(row, ai) ==
    LET updates == BuildUpdateObject(ai)
    IN  [row EXCEPT !.title = IF "title" \in updates THEN ai.title ELSE @,
                    !.endDate = IF "endDate" \in updates THEN ai.endDate ELSE @]

\* a planned step process-batch-k: state is pending, running, done or threw;
\* i is the index of the loop of extractData; memory holds the extracted data
\* not yet handed to the UPDATE; results is the outcome of each finished item
StepPlanned(batchIds) ==
    [batchIds |-> batchIds, state |-> "pending", phase |-> "none", i |-> 0,
     memory |-> <<>>, results |-> <<>>]

\* the loop moves to its next item, or extractData returns after the last
NextItem(st) ==
    IF st.i = Len(st.batchIds)
    THEN [st EXCEPT !.state = "done", !.phase = "none"]
    ELSE [st EXCEPT !.i = @ + 1, !.phase = "extract"]

\* the loop keeps the extracted data and goes on to the next post; the
\* records are updated after the loop
AfterExtract_Deferred(st, o) ==
    IF o.kind = "ok"
    THEN NextItem([st EXCEPT !.memory = Append(@, [id |-> st.batchIds[st.i], ai |-> o.ai]),
                             !.results = Append(@, [kind |-> "held", ai |-> o.ai])])
    ELSE NextItem([st EXCEPT !.results = Append(@, [kind |-> "failed", ai |-> AiNone])])

\* the loop body after extractSingle: valid data goes to updateSingleRecord
\* at once; an exception or invalid data counts an error
AfterExtract(st, o) ==
    IF o.kind = "ok"
    THEN [st EXCEPT !.phase = "update",
                    !.memory = Append(@, [id |-> st.batchIds[st.i], ai |-> o.ai])]
    ELSE NextItem([st EXCEPT !.results = Append(@, [kind |-> "failed", ai |-> AiNone])])

\* Promise.all over the steps never rejects
BatchesRejected_Never(steps) == FALSE

\* Promise.all over the steps rejects when a step threw
BatchesRejected(steps) == \E k \in 1..Len(steps) : steps[k].state = "threw"

Running(steps) == {k \in 1..Len(steps) : steps[k].state = "running"}

----------------------------------------------------------------------------
(* SpecBatch: one run of processDraftBatchesFn on a store of admitted drafts,
   from the arrival of the event to the end of the run *)

MaxRecords == 3

\* a draft as insertToDb stores it: poster uploaded, no title yet
DraftPost == [title |-> Null, description |-> Null, image |-> <<"img">>, link |-> Null]

\* posts as the sources hand them to admission: an HTML source supplies a
\* title, the Instagram source does not
DraftPosts == {DraftPost, [DraftPost EXCEPT !.title = <<"t">>]}

InitBatch ==
    /\ db \in {InsertRows(<<>>, posts) : posts \in [1..MaxRecords -> DraftPosts]}
    /\ today = 1
    /\ last = NoInsert
    /\ cron = CronIdle
    /\ requests = <<>>
    /\ events = <<>>
    /\ fn = FnIdle
    /\ gate = GateIdle
    /\ ex = ExIdle
    /\ scrape = ScrapeIdle
    /\ upload = UploadIdle
    /\ admit = AdmitIdle

\* the event process/batches.start arrives: the handler chunks recordIds and
\* plans one step per batch with Promise.all
FnStart ==
    /\ fn.pc = "idle"
    /\ \E n \in 1..MaxRecords, env \in Envs :
         LET recordIds == [i \in 1..n |-> i]
             batches   == chunk(recordIds, batchSize)
         IN  fn' = [pc |-> "batches", env |-> env, recordIds |-> recordIds,
                    steps |-> [k \in 1..Len(batches) |-> StepPlanned(batches[k])],
                    gateCalls |-> 0]
    /\ UNCHANGED <<db, today, last, cron, requests, events, gate, ex, scrape, upload, admit>>

\* the engine starts the planned step k: extractData(0, batchIds, env) begins
\* and throws at once when DATABASE_URL is not set
StepStart(k) ==
    /\ fn.pc = "batches"
    /\ fn.steps[k].state = "pending"
    /\ CanStart(Cardinality(Running(fn.steps)))
    /\ fn' = IF Truthy(fn.env.DATABASE_URL)
             THEN [fn EXCEPT !.steps[k].state = "running", !.steps[k].phase = "fetch"]
             ELSE [fn EXCEPT !.steps[k].state = "threw"]
    /\ UNCHANGED <<db, today, last, cron, requests, events, gate, ex, scrape, upload, admit>>

\* extractData: the SELECT of the records of the batch returns, or fails and
\* the error is rethrown
StepFetch(k) ==
    /\ fn.steps[k].state = "running"
    /\ fn.steps[k].phase = "fetch"
    /\ fn.pc = "batches"
    /\ \E threw \in BOOLEAN :
         fn' = IF threw
               THEN [fn EXCEPT !.steps[k].state = "threw", !.steps[k].phase = "none"]
               ELSE [fn EXCEPT !.steps[k] = NextItem(@)]
    /\ UNCHANGED <<db, today, last, cron, requests, events, gate, ex, scrape, upload, admit>>

\* extractData: extractSingle of the current post ends
StepExtract(k) ==
    /\ fn.steps[k].state = "running"
    /\ fn.steps[k].phase = "extract"
    /\ fn.pc = "batches"
    /\ \E o \in ExtractOutcomes : fn' = [fn EXCEPT !.steps[k] = AfterExtract(@, o)]
    /\ UNCHANGED <<db, today, last, cron, requests, events, gate, ex, scrape, upload, admit>>

\* extractData: updateSingleRecord of the current post ends; a failing UPDATE
\* is caught by the loop and counted as an error
StepUpdate(k) ==
    /\ fn.steps[k].state = "running"
    /\ fn.steps[k].phase = "update"
    /\ fn.pc = "batches"
    /\ \E threw \in BOOLEAN :
         LET st == fn.steps[k]
             m  == st.memory[Len(st.memory)]
             kind == IF BuildUpdateObject(m.ai) = {} THEN "nothing"
                     ELSE IF threw THEN "updatefailed" ELSE "updated"
         IN  /\ db' = IF kind = "updated" THEN [db EXCEPT ![m.id] = UpdateRow(@, m.ai)] ELSE db
             /\ fn' = [fn EXCEPT !.steps[k] =
                         NextItem([st EXCEPT !.memory = <<>>,
                                             !.results = Append(@, [kind |-> kind, ai |-> m.ai])])]
    /\ UNCHANGED <<today, last, cron, requests, events, gate, ex, scrape, upload, admit>>

\* the worker executing a step dies: what the step held in memory is gone
FnCrash ==
    /\ fn.pc = "batches"
    /\ Running(fn.steps) # {}
    /\ fn' = [fn EXCEPT !.pc = "crashed"]
    /\ UNCHANGED <<db, today, last, cron, requests, events, gate, ex, scrape, upload, admit>>

\* await Promise.all(...) settles: the handler goes on to the log step, or
\* fails with the error of a step
FnAwaitBatches ==
    /\ fn.pc = "batches"
    /\ \A k \in 1..Len(fn.steps) : fn.steps[k].state \in {"done", "threw"}
    /\ fn' = [fn EXCEPT !.pc = IF BatchesRejected(fn.steps) THEN "failed" ELSE "log"]
    /\ UNCHANGED <<db, today, last, cron, requests, events, gate, ex, scrape, upload, admit>>

\* step log-detailed-results
FnLogResults ==
    /\ fn.pc = "log"
    /\ fn' = [fn EXCEPT !.pc = "whatsapp"]
    /\ UNCHANGED <<db, today, last, cron, requests, events, gate, ex, scrape, upload, admit>>

\* step trigger-whatsapp: sendAllToWhatsApp(env) is invoked; when it throws
\* the step and the run fail
FnTriggerWhatsapp ==
    /\ fn.pc = "whatsapp"
    /\ \E fetchThrew \in BOOLEAN : GateRun(fn.env, fetchThrew)
    /\ fn' = [fn EXCEPT !.gateCalls = @ + 1,
                        !.pc = IF gate'.threw THEN "failed" ELSE "done"]
    /\ UNCHANGED <<today, last, cron, requests, events, ex, scrape, upload, admit>>

NextBatch ==
    \/ FnStart
    \/ \E k \in 1..Len(fn.steps) : StepStart(k)
    \/ \E k \in 1..Len(fn.steps) : StepFetch(k)
    \/ \E k \in 1..Len(fn.steps) : StepExtract(k)
    \/ \E k \in 1..Len(fn.steps) : StepUpdate(k)
    \/ FnCrash
    \/ FnAwaitBatches
    \/ FnLogResults
    \/ FnTriggerWhatsapp

SpecBatch == InitBatch /\ [][NextBatch]_vars

----------------------------------------------------------------------------
(* Claims about the batch-processing function *)

StepIds == 1..Len(fn.steps)

AllStepsDone == \A k \in StepIds : fn.steps[k].state = "done"

SomeStepThrew == \E k \in StepIds : fn.steps[k].state = "threw"

----------------------------------------------------------------------------
(* extractSingle: the three extraction steps of one post *)

\* the fields of the accumulator followed here: two strings and the one array
\* whose normalized form the canonical schema rejects
Fields == {"title", "location", "contact"}

\* let data = { title: null, ..., categories: null }
EmptyData == [f \in Fields |-> Null]

\* const fieldSource = {}: "none" stands for an absent key
NoSource == [f \in Fields |-> "none"]

\* what a provider may answer for contact: nothing, one string, or an array
\* whose items are strings (text) or name-to-phone objects
ContactItem(isString, text) == [isString |-> isString, text |-> text]

RawContacts ==
    {[kind |-> "null", text |-> SP, items |-> <<>>],
     [kind |-> "string", text |-> "c", items |-> <<>>],
     [kind |-> "array", text |-> SP, items |-> <<ContactItem(FALSE, "r")>>],
     [kind |-> "array", text |-> SP,
      items |-> <<ContactItem(TRUE, SP), ContactItem(TRUE, "c")>>]}

RawOutputs ==
    [title : {Null, <<SP>>, <<SP, "a">>, <<"b">>},
     location : {Null, <<"id">>},
     contact : RawContacts]

\* normalize(data).contact: the non-blank strings of an array, or the one
\* string, or null
NormalizeContact(c) ==
    IF c.kind = "array" /\ Len(c.items) > 0
    THEN LET kept == SelectSeq(c.items, LAMBDA it : it.isString /\ it.text # SP)
         IN  IF kept = <<>> THEN Null ELSE [k \in 1..Len(kept) |-> kept[k].text]
    ELSE IF c.kind = "string" /\ c.text # SP THEN <<c.text>>
    ELSE Null

\* typeof v === "string" && v.trim() ? v.trim() : null
NormalizeString(v) == IF Truthy(Trim(v)) THEN Trim(v) ELSE Null

\* normalize(data), for the fields followed here
Normalize(raw) ==
    [f \in Fields |->
        IF f = "contact" THEN NormalizeContact(raw.contact)
        ELSE NormalizeString(raw[f])]

\* CompetitionSchema.pick({field}).safeParse: title and location are
\* z.string().nullish(); contact is z.array(z.record(z.string())).nullish(),
\* which no array holding a string satisfies
FieldValid(f, v) == v = Null \/ f # "contact" \/ v = <<>>

\* CompetitionSchema.safeParse(data).success
SafeParseSuccess(data) == \A f \in Fields : FieldValid(f, data[f])

\* the test merge makes of a value, in update and in base: null, undefined,
\* "" and [] do not count as a value
HasValue(v) == v # Null /\ v # <<>>

\* merge(base, update) with a value of update appended to the one of base
Merge_Concat(base, update) ==
    [f \in Fields |->
        IF ~HasValue(update[f]) THEN base[f]
        ELSE IF HasValue(base[f]) THEN base[f] \o update[f]
        ELSE update[f]]

\* merge(base, update) with a value of update written over the one of base
Merge_Overwrite(base, update) ==
    [f \in Fields |-> IF HasValue(update[f]) THEN update[f] ELSE base[f]]

\* merge(base, update): a value of update fills the field only where base
\* has none
Merge(base, update) ==
    [f \in Fields |->
        IF ~HasValue(update[f]) THEN base[f]
        ELSE IF HasValue(base[f]) THEN base[f]
        ELSE update[f]]

\* trackSource(sourceData, sourceName)
TrackSource(fieldSource, sourceData, sourceName) ==
    [f \in Fields |->
        IF sourceData[f] # Null /\ fieldSource[f] = "none"
        THEN sourceName ELSE fieldSource[f]]

\* trackNewFields(baseData, newData, sourceName)
TrackNewFields(fieldSource, baseData, newData, sourceName) ==
    [f \in Fields |->
        IF newData[f] # Null /\ baseData[f] = Null
        THEN sourceName ELSE fieldSource[f]]

\* a provider call throws or resolves with an answer
RawNone == [title |-> Null, location |-> Null, contact |-> [kind |-> "null", text |-> SP, items |-> <<>>]]

ProviderOutcomes ==
    {[threw |-> TRUE, raw |-> RawNone]}
        \cup {[threw |-> FALSE, raw |-> r] : r \in RawOutputs}

\* one provider call as the run saw it: parsed is the normalized answer,
\* merged tells whether it reached merge
Call(provider, o, merged) ==
    [provider |-> provider, threw |-> o.threw,
     parsed |-> IF o.threw THEN EmptyData ELSE Normalize(o.raw),
     merged |-> merged]

\* if (description && description.trim()) with the test left out
CallsText_Always(description) == TRUE

\* if (description && description.trim())
CallsText(description) == Truthy(description) /\ Truthy(Trim(description))

\* if (!mistralSuccess) with the fallback taken in every run
NeedsFallback_Always(mistralSuccess) == TRUE

\* if (!mistralSuccess) with the fallback never taken
NeedsFallback_Never(mistralSuccess) == FALSE

\* if (!mistralSuccess)
NeedsFallback(mistralSuccess) == ~mistralSuccess

\* aiAnalysis that is the accumulator whether it validates or not
AiAnalysis_Unchecked(data) == data

\* aiAnalysis of the value returned: result.data when the accumulator
\* validates, and otherwise the fields that validate one by one (a field left
\* out of partialData reads as null)
AiAnalysis(data) ==
    IF SafeParseSuccess(data) THEN data
    ELSE [f \in Fields |-> IF data[f] # Null /\ FieldValid(f, data[f]) THEN data[f] ELSE Null]

\* extractSingle(post) entered: the accumulator and fieldSource are fresh
ExStart(description) ==
    [pc |-> "step1", description |-> description, data |-> EmptyData,
     fieldSource |-> NoSource, mistralSuccess |-> FALSE, calls |-> <<>>,
     aiAnalysis |-> EmptyData, extractionSuccess |-> FALSE]

PostDescriptions == {Null, Blank, <<SP>>, <<"d">>}

----------------------------------------------------------------------------
(* SpecExtract: one call of extractSingle, the providers answering freely *)

InitExtract ==
    /\ db = <<>>
    /\ today = 1
    /\ last = NoInsert
    /\ cron = CronIdle
    /\ requests = <<>>
    /\ events = <<>>
    /\ fn = FnIdle
    /\ gate = GateIdle
    /\ ex \in {ExStart(d) : d \in PostDescriptions}
    /\ scrape = ScrapeIdle
    /\ upload = UploadIdle
    /\ admit = AdmitIdle

\* Step 1: zaiTextToText(description), normalize, merge, trackSource
StepZai ==
    /\ ex.pc = "step1"
    /\ IF CallsText(ex.description)
       THEN \E o \in ProviderOutcomes :
               IF o.threw
               THEN ex' = [ex EXCEPT !.pc = "step2",
                                     !.calls = Append(@, Call("zai", o, FALSE))]
               ELSE LET normalized == Normalize(o.raw)
                    IN  ex' = [ex EXCEPT !.pc = "step2",
                                         !.data = Merge(@, normalized),
                                         !.fieldSource = TrackSource(@, normalized, "zai"),
                                         !.calls = Append(@, Call("zai", o, TRUE))]
       ELSE ex' = [ex EXCEPT !.pc = "step2"]
    /\ UNCHANGED <<db, today, last, cron, requests, events, fn, gate, scrape, upload, admit>>

\* Step 2: mistralOCR(poster), normalize, safeParse; merged when it validates
StepMistral ==
    /\ ex.pc = "step2"
    /\ \E o \in ProviderOutcomes :
          IF o.threw
          THEN ex' = [ex EXCEPT !.pc = "step3",
                                !.calls = Append(@, Call("mistral", o, FALSE))]
          ELSE LET mistralParsed == Normalize(o.raw)
                   merged == Merge(ex.data, mistralParsed)
               IN  IF SafeParseSuccess(mistralParsed)
                   THEN ex' = [ex EXCEPT !.pc = "step3",
                                         !.data = merged,
                                         !.fieldSource =
                                             TrackNewFields(@, merged, mistralParsed, "mistral"),
                                         !.mistralSuccess = TRUE,
                                         !.calls = Append(@, Call("mistral", o, TRUE))]
                   ELSE ex' = [ex EXCEPT !.pc = "step3",
                                         !.calls = Append(@, Call("mistral", o, FALSE))]
    /\ UNCHANGED <<db, today, last, cron, requests, events, fn, gate, scrape, upload, admit>>

\* Step 3: geminiImageToText(poster) when Mistral did not succeed
StepGemini ==
    /\ ex.pc = "step3"
    /\ IF NeedsFallback(ex.mistralSuccess)
       THEN \E o \in ProviderOutcomes :
               IF o.threw
               THEN ex' = [ex EXCEPT !.pc = "validate",
                                     !.calls = Append(@, Call("gemini", o, FALSE))]
               ELSE LET geminiParsed == Normalize(o.raw)
                        beforeMerge == ex.data
                    IN  ex' = [ex EXCEPT !.pc = "validate",
                                         !.data = Merge(@, geminiParsed),
                                         !.fieldSource =
                                             TrackNewFields(@, beforeMerge, geminiParsed, "gemini"),
                                         !.calls = Append(@, Call("gemini", o, TRUE))]
       ELSE ex' = [ex EXCEPT !.pc = "validate"]
    /\ UNCHANGED <<db, today, last, cron, requests, events, fn, gate, scrape, upload, admit>>

\* Validate and return
ExtractReturn ==
    /\ ex.pc = "validate"
    /\ ex' = [ex EXCEPT !.pc = "returned",
                        !.aiAnalysis = AiAnalysis(ex.data),
                        !.extractionSuccess = TRUE]
    /\ UNCHANGED <<db, today, last, cron, requests, events, fn, gate, scrape, upload, admit>>

NextExtract ==
    \/ StepZai
    \/ StepMistral
    \/ StepGemini
    \/ ExtractReturn

SpecExtract == InitExtract /\ [][NextExtract]_vars

\* every await of extractSingle is on a provider call that resolves or
\* rejects, and the function runs on from there
SpecExtractLive == SpecExtract /\ WF_vars(NextExtract)

----------------------------------------------------------------------------
(* runSourcePipeline up to the end of its scrape: the retry loop of a web
   source and the single call of the Instagram source *)

\* most failed attempts of one source followed by the model
MaxAttempts == 7

\* x to the power n
RECURSIVE Pow(_, _)
Pow(x, n) == IF n = 0 THEN 1 ELSE x * Pow(x, n - 1)

\* a duration in ms as the fraction num / den
Ms(num, den) == [num |-> num, den |-> den]

\* getRetryDelay with the attempts counted from zero
getRetryDelay_FromZero(attempt, baseDelayMs) ==
    IF baseDelayMs * Pow(3, attempt - 1) <= 60000 * Pow(2, attempt - 1)
    THEN Ms(baseDelayMs * Pow(3, attempt - 1), Pow(2, attempt - 1))
    ELSE Ms(60000, 1)

\* Math.min(baseDelayMs * Math.pow(1.5, attempt), 60000)
getRetryDelay(attempt, baseDelayMs) ==
    IF baseDelayMs * Pow(3, attempt) <= 60000 * Pow(2, attempt)
    THEN Ms(baseDelayMs * Pow(3, attempt), Pow(2, attempt))
    ELSE Ms(60000, 1)

\* default of the parameter baseDelayMs
baseDelayMs == 5000

\* what one call of scrapeFn does: it throws, or returns count posts
ScrapeFnOutcomes == {[threw |-> TRUE, count |-> 0]}
                        \cup {[threw |-> FALSE, count |-> c] : c \in 0..1}

\* the loop leaves on any result that did not throw
LeavesLoop_AnyResult(o) == ~o.threw

\* if (scrapeResult.count > 0) break, reached when scrapeFn did not throw
LeavesLoop(o) == ~o.threw /\ o.count > 0

\* runSourcePipeline entered
SourceStart(isWebSource) ==
    [pc |-> "scrape", isWebSource |-> isWebSource, retryAttempts |-> 0,
     outcomes |-> <<>>, waits |-> <<>>, count |-> 0, errors |-> 0]

----------------------------------------------------------------------------
(* SpecRetry: one call of runSourcePipeline, followed to the point where it
   returns or goes on to the upload and the insert *)

InitRetry ==
    /\ db = <<>>
    /\ today = 1
    /\ last = NoInsert
    /\ cron = CronIdle
    /\ requests = <<>>
    /\ events = <<>>
    /\ fn = FnIdle
    /\ gate = GateIdle
    /\ ex = ExIdle
    /\ scrape \in {SourceStart(w) : w \in BOOLEAN}
    /\ upload = UploadIdle
    /\ admit = AdmitIdle

\* a web source: scrapeResult = await scrapeFn() inside while (true); a
\* failed attempt counts and computes the delay to sleep
WebScrapeAttempt ==
    /\ scrape.pc = "scrape"
    /\ scrape.isWebSource
    /\ \E o \in ScrapeFnOutcomes :
          IF LeavesLoop(o)
          THEN scrape' = [scrape EXCEPT !.pc = "r2db", !.count = o.count,
                                        !.outcomes = Append(@, o)]
          ELSE /\ scrape.retryAttempts < MaxAttempts
               /\ scrape' = [scrape EXCEPT
                     !.pc = "sleep",
                     !.retryAttempts = @ + 1,
                     !.outcomes = Append(@, o),
                     !.waits = Append(@, getRetryDelay(scrape.retryAttempts + 1, baseDelayMs))]
    /\ UNCHANGED <<db, today, last, cron, requests, events, fn, gate, ex, upload, admit>>

\* await sleep(delay) is over: the loop scrapes again
RetrySleep ==
    /\ scrape.pc = "sleep"
    /\ scrape' = [scrape EXCEPT !.pc = "scrape"]
    /\ UNCHANGED <<db, today, last, cron, requests, events, fn, gate, ex, upload, admit>>

\* the Instagram source: one call; an exception returns the error result, a
\* result without posts returns early
IgScrapeOnce ==
    /\ scrape.pc = "scrape"
    /\ ~scrape.isWebSource
    /\ \E o \in ScrapeFnOutcomes :
          IF o.threw
          THEN scrape' = [scrape EXCEPT !.pc = "returned", !.errors = 1,
                                        !.outcomes = Append(@, o)]
          ELSE IF o.count = 0
          THEN scrape' = [scrape EXCEPT !.pc = "returned", !.outcomes = Append(@, o)]
          ELSE scrape' = [scrape EXCEPT !.pc = "r2db", !.count = o.count,
                                        !.outcomes = Append(@, o)]
    /\ UNCHANGED <<db, today, last, cron, requests, events, fn, gate, ex, upload, admit>>

NextRetry ==
    \/ WebScrapeAttempt
    \/ RetrySleep
    \/ IgScrapeOnce

SpecRetry == InitRetry /\ [][NextRetry]_vars

----------------------------------------------------------------------------
(* The Instagram scrape: scrapeOnce fetches the accounts one after another,
   scrape repeats scrapeOnce while no account succeeded *)

MAX_RETRY_PER_ACCOUNT == 3

\* most calls of scrapeOnce in one call of scrape followed by the model
MaxRounds == 2

\* config.instagram.accounts
Accounts == <<"ig1", "ig2">>

\* what scraper.getPosts does for one account: posts (possibly none valid),
\* a retryable failure (429, RATE_LIMITED) or another failure, each as a
\* result without success or as an exception
GetPostsOutcomes ==
    {[success |-> TRUE, validPosts |-> n, isRetryable |-> FALSE] : n \in 0..1}
        \cup {[success |-> FALSE, validPosts |-> 0, isRetryable |-> r] : r \in BOOLEAN}

\* scrapeOnce entered by the round-th iteration of scrape
ScrapeOnceStart(round, fetches) ==
    [pc |-> "fetch", round |-> round, account |-> 1, attempt |-> 0,
     posts |-> 0, errors |-> <<>>, fetches |-> fetches, count |-> 0]

\* the for loop moves to the next account; after the last, scrapeOnce returns
NextAccount(st) ==
    IF st.account = Len(Accounts)
    THEN [st EXCEPT !.pc = "judge", !.attempt = 0]
    ELSE [st EXCEPT !.account = @ + 1, !.attempt = 0]

\* const isSuccess = posts.length > 0 || successCount > 0
IsSuccess(posts, errors) == posts > 0 \/ Len(Accounts) - Len(errors) > 0

----------------------------------------------------------------------------
(* SpecIg: one call of scrape() of the Instagram source *)

InitIg ==
    /\ db = <<>>
    /\ today = 1
    /\ last = NoInsert
    /\ cron = CronIdle
    /\ requests = <<>>
    /\ events = <<>>
    /\ fn = FnIdle
    /\ gate = GateIdle
    /\ ex = ExIdle
    /\ scrape = ScrapeOnceStart(1, [a \in 1..Len(Accounts) |-> 0])
    /\ upload = UploadIdle
    /\ admit = AdmitIdle

\* one iteration of the while loop of an account: attempt++, the delay,
\* scraper.getPosts, and what the result or the exception leads to
GetPosts ==
    /\ scrape.pc = "fetch"
    /\ \E o \in GetPostsOutcomes :
          LET attempt == scrape.attempt + 1
              st == [scrape EXCEPT !.attempt = attempt,
                                   !.fetches[scrape.account] = @ + 1]
          IN  IF o.success
              THEN scrape' = NextAccount([st EXCEPT !.posts = @ + o.validPosts])
              ELSE IF o.isRetryable /\ attempt < MAX_RETRY_PER_ACCOUNT
              THEN scrape' = st
              ELSE scrape' = NextAccount([st EXCEPT !.errors = Append(@, st.account)])
    /\ UNCHANGED <<db, today, last, cron, requests, events, fn, gate, ex, upload, admit>>

\* scrape: scrapeOnce returned with a success
ScrapeReturn ==
    /\ scrape.pc = "judge"
    /\ IsSuccess(scrape.posts, scrape.errors)
    /\ scrape' = [scrape EXCEPT !.pc = "returned", !.count = scrape.posts]
    /\ UNCHANGED <<db, today, last, cron, requests, events, fn, gate, ex, upload, admit>>

\* scrape: every account failed; wait retryDelayMs and call scrapeOnce again
ScrapeAgain ==
    /\ scrape.pc = "judge"
    /\ ~IsSuccess(scrape.posts, scrape.errors)
    /\ scrape.round < MaxRounds
    /\ scrape' = ScrapeOnceStart(scrape.round + 1, scrape.fetches)
    /\ UNCHANGED <<db, today, last, cron, requests, events, fn, gate, ex, upload, admit>>

NextIg ==
    \/ GetPosts
    \/ ScrapeReturn
    \/ ScrapeAgain

SpecIg == InitIg /\ [][NextIg]_vars

----------------------------------------------------------------------------
(* scrapeAllSources: every adapter is called once and the results are put
   together after Promise.allSettled *)

\* what an adapter returns: { count: posts.length, posts, errors }
AdapterResult(posts, errors) ==
    [count |-> Len(posts), posts |-> posts, errors |-> errors]

\* the promise of a source is pending, rejected (the adapter threw), or
\* fulfilled with the adapter's result; posts are named by source and rank
Pending == [status |-> "pending", value |-> AdapterResult(<<>>, <<>>)]

Settlements(i) ==
    {[status |-> "rejected", value |-> AdapterResult(<<>>, <<>>)]}
        \cup {[status |-> "fulfilled", value |-> AdapterResult(posts, errors)] :
                 posts \in {[k \in 1..n |-> <<i, k>>] : n \in 0..2},
                 errors \in {<<>>, <<"e">>}}

\* the loop over outcomes with a rejected promise passed over
RECURSIVE CollectOutcomes_DropRejected(_, _)
CollectOutcomes_DropRejected(outcomes, n) ==
    IF n = 0 THEN [allPosts |-> <<>>, allErrors |-> <<>>]
    ELSE LET acc == CollectOutcomes_DropRejected(outcomes, n - 1)
             o   == outcomes[n]
         IN  IF o.status = "fulfilled"
             THEN [allPosts |-> acc.allPosts \o o.value.posts,
                   allErrors |-> acc.allErrors \o o.value.errors]
             ELSE acc

\* the loop over outcomes: a fulfilled promise gives its posts and its
\* errors, a rejected one gives one error entry
RECURSIVE CollectOutcomes(_, _)
CollectOutcomes(outcomes, n) ==
    IF n = 0 THEN [allPosts |-> <<>>, allErrors |-> <<>>]
    ELSE LET acc == CollectOutcomes(outcomes, n - 1)
             o   == outcomes[n]
         IN  IF o.status = "fulfilled"
             THEN [allPosts |-> acc.allPosts \o o.value.posts,
                   allErrors |-> acc.allErrors \o o.value.errors]
             ELSE [acc EXCEPT !.allErrors = Append(@, "unknown")]

----------------------------------------------------------------------------
(* SpecCollect: one call of scrapeAllSources *)

InitCollect ==
    /\ db = <<>>
    /\ today = 1
    /\ last = NoInsert
    /\ cron = CronIdle
    /\ requests = <<>>
    /\ events = <<>>
    /\ fn = FnIdle
    /\ gate = GateIdle
    /\ ex = ExIdle
    /\ scrape = [pc |-> "settling", outcomes |-> [i \in Sources |-> Pending],
                 count |-> 0, posts |-> <<>>, errors |-> <<>>]
    /\ upload = UploadIdle
    /\ admit = AdmitIdle

\* the promise of source i settles
SourceSettles(i) ==
    /\ scrape.pc = "settling"
    /\ scrape.outcomes[i].status = "pending"
    /\ \E o \in Settlements(i) : scrape' = [scrape EXCEPT !.outcomes[i] = o]
    /\ UNCHANGED <<db, today, last, cron, requests, events, fn, gate, ex, upload, admit>>

\* Promise.allSettled resolved: collect and return
ScrapeAllSources ==
    /\ scrape.pc = "settling"
    /\ \A i \in Sources : scrape.outcomes[i].status # "pending"
    /\ LET c == CollectOutcomes(scrape.outcomes, Len(SourceNames))
       IN  scrape' = [scrape EXCEPT !.pc = "collected",
                                    !.count = Len(c.allPosts),
                                    !.posts = c.allPosts,
                                    !.errors = c.allErrors]
    /\ UNCHANGED <<db, today, last, cron, requests, events, fn, gate, ex, upload, admit>>

NextCollect ==
    \/ \E i \in Sources : SourceSettles(i)
    \/ ScrapeAllSources

SpecCollect == InitCollect /\ [][NextCollect]_vars

----------------------------------------------------------------------------
(* uploadToR2: the image of each post is fetched and put into the bucket *)

\* DEFAULT_RETRY_CONFIG.maxAttempts
maxAttempts == 3

\* the posts handed to uploadToR2: the image is missing, empty, not an http
\* URL, or an upstream URL
UploadPosts ==
    [title : {Null, <<"t">>, <<"T", "!">>},
     username : {<<"u">>},
     image : {Null, Blank, <<"data:", "x">>, <<"http", "a">>},
     link : {<<"l">>}]

\* if (!imageUrl || !imageUrl.startsWith("http"))
InvalidUrl(imageUrl) == ~Truthy(imageUrl) \/ Head(imageUrl) # "http"

\* title.replace(/[^a-z0-9]/gi, "_").toLowerCase(), one character at a time
\* (no title of the model reaches the 50 characters of slice)
SanitizeChar(c) == IF c = "T" THEN "t" ELSE IF c \in {"t", "u"} THEN c ELSE "_"

SanitizedTitle(post) ==
    IF Truthy(post.title) THEN [k \in 1..Len(post.title) |-> SanitizeChar(post.title[k])]
    ELSE post.username

\* `${Date.now()}-${sanitizedTitle}.jpg`: the timestamp now is written as
\* that many "ms"
Filename(post, now) == [k \in 1..now |-> "ms"] \o <<"-">> \o SanitizedTitle(post)

\* `${r2PublicUrl}/${filename}`
R2Url(post, now) == <<"r2">> \o Filename(post, now)

\* no error: the image was fetched and put
NoError == [class |-> "none", message |-> <<>>]

\* the errors one pass of the attempt loop may catch, each with the pieces of
\* its message: the timeout of fetchWithTimeout, a connection reset, a 5xx
\* and a 4xx response, and an empty body
FetchErrors ==
    {[class |-> "timeout", message |-> <<"Request ", "timeout", " after 30000ms">>],
     [class |-> "reset", message |-> <<"read ", "ECONNRESET">>],
     [class |-> "5xx", message |-> <<"HTTP 5", "03: Service Unavailable">>],
     [class |-> "4xx", message |-> <<"HTTP 4", "04: Not Found">>],
     [class |-> "empty", message |-> <<"Received empty buffer">>]}

\* isRetryableError answering yes for every error
isRetryableError_Always(message) == TRUE

\* message.includes(...) for one of the five texts
isRetryableError(message) ==
    \E k \in 1..Len(message) :
        message[k] \in {"Network connection lost", "timeout", "ECONNRESET", "fetch",
                        "HTTP 5"}

\* one pass of the attempt loop: the image was fetched and put, or the pass
\* caught an error
AttemptOutcomes == {NoError} \cup FetchErrors

\* the post pushed to updatedPosts with the image cleared after a failure
UpdatedPost_ClearOnFailure(post, result) ==
    IF result.success
    THEN [post EXCEPT !.image = result.r2Url]
    ELSE [post EXCEPT !.image = Null]

\* the post pushed to updatedPosts for the result of uploadSingleImage
UpdatedPost(post, result) ==
    IF result.success
    THEN [post EXCEPT !.image = result.r2Url]
    ELSE [post EXCEPT !.image = result.originalUrl]

\* UploadResult of a failure and of a success
UploadFailed(post) == [success |-> FALSE, originalUrl |-> post.image, r2Url |-> Null]

UploadOk(post, now) ==
    [success |-> TRUE, originalUrl |-> post.image, r2Url |-> R2Url(post, now)]

\* uploadSingleImage returned for post i: push, and go to the next post
PushResult(st, result) ==
    [st EXCEPT !.updatedPosts = Append(@, UpdatedPost(st.posts[st.i], result)),
               !.results = Append(@, result.success),
               !.i = @ + 1,
               !.attempt = 0]

----------------------------------------------------------------------------
(* SpecUpload: one call of uploadToR2 *)

InitUpload ==
    /\ db = <<>>
    /\ today = 1
    /\ last = NoInsert
    /\ cron = CronIdle
    /\ requests = <<>>
    /\ events = <<>>
    /\ fn = FnIdle
    /\ gate = GateIdle
    /\ ex = ExIdle
    /\ scrape = ScrapeIdle
    /\ admit = AdmitIdle
    /\ \E n \in 0..MaxRows, hasBucket \in BOOLEAN :
          \E posts \in [1..n -> UploadPosts] :
             upload = [pc |-> "start", posts |-> posts, hasBucket |-> hasBucket,
                       i |-> 1, attempt |-> 0, updatedPosts |-> <<>>,
                       results |-> <<>>, returned |-> <<>>,
                       fetches |-> 0, sleeps |-> 0, lastError |-> NoError,
                       now |-> 1]

\* if (!r2Bucket) return posts
UploadNoBucket ==
    /\ upload.pc = "start"
    /\ IF upload.hasBucket
       THEN upload' = [upload EXCEPT !.pc = "posts"]
       ELSE upload' = [upload EXCEPT !.pc = "returned", !.returned = upload.posts]
    /\ UNCHANGED <<db, today, last, cron, requests, events, fn, gate, ex, scrape, admit>>

\* uploadSingleImage for post i: the URL test, or one pass of the attempt loop
\* (the fetch, the put, and the sleep before the next pass).  fetches, sleeps
\* and lastError tell of the call for the post in hand, or of the call that
\* returned last.  now is what Date.now() answered last: the next answer is
\* the same millisecond or a later one.
UploadSingleImage ==
    /\ upload.pc = "posts"
    /\ upload.i <= Len(upload.posts)
    /\ LET post    == upload.posts[upload.i]
           entered == IF upload.attempt > 0 THEN upload
                      ELSE [upload EXCEPT !.fetches = 0, !.sleeps = 0,
                                          !.lastError = NoError]
       IN  IF InvalidUrl(post.image)
           THEN upload' = PushResult(entered, UploadFailed(post))
           ELSE \E o \in AttemptOutcomes :
                   LET fetched == [entered EXCEPT !.fetches = @ + 1, !.lastError = o]
                   IN  IF o = NoError
                       THEN \E now \in {upload.now, upload.now + 1} :
                               upload' = PushResult([fetched EXCEPT !.now = now],
                                                    UploadOk(post, now))
                       ELSE IF ~isRetryableError(o.message)
                       THEN upload' = PushResult(fetched, UploadFailed(post))
                       ELSE IF upload.attempt < maxAttempts - 1
                       THEN upload' = [fetched EXCEPT !.attempt = @ + 1,
                                                      !.sleeps = @ + 1]
                       ELSE upload' = PushResult(fetched, UploadFailed(post))
    /\ UNCHANGED <<db, today, last, cron, requests, events, fn, gate, ex, scrape, admit>>

\* return updatedPosts
UploadReturn ==
    /\ upload.pc = "posts"
    /\ upload.i > Len(upload.posts)
    /\ upload' = [upload EXCEPT !.pc = "returned", !.returned = upload.updatedPosts]
    /\ UNCHANGED <<db, today, last, cron, requests, events, fn, gate, ex, scrape, admit>>

NextUpload ==
    \/ UploadNoBucket
    \/ UploadSingleImage
    \/ UploadReturn

SpecUpload == InitUpload /\ [][NextUpload]_vars

----------------------------------------------------------------------------
(* SpecFilter: the filter loop of one insertToDb call, one candidate at a
   time, on a store that one earlier call has filled *)

\* the stores the loop runs against: empty, or holding the row of one
\* candidate inserted earlier
FilterStores == {<<>>} \cup {InsertRows(<<>>, <<c>>) : c \in Candidates}

\* what the loop body did with a candidate, read from the accumulator before
\* and after it
FilterOutcome(before, after) ==
    IF after.skipped.skippedUrl > before.skipped.skippedUrl THEN "skippedUrl"
    ELSE IF after.skipped.skippedDescription > before.skipped.skippedDescription
    THEN "skippedDescription"
    ELSE IF after.skipped.skippedDuplication > before.skipped.skippedDuplication
    THEN "skippedDuplication"
    ELSE IF Len(after.filteredPosts) > Len(before.filteredPosts) THEN "pushed"
    ELSE "dropped"

\* the call after the SELECT of the existing keys, before the first candidate
FilterStart(d, posts) ==
    [pc |-> "loop", posts |-> posts, i |-> 1,
     existingUrls |-> ExistingUrls(d),
     existingDescriptions |-> ExistingDescriptions(d),
     acc |-> FilterInit, outcomes |-> <<>>]

InitFilter ==
    /\ db \in FilterStores
    /\ today = 1
    /\ last = NoInsert
    /\ cron = CronIdle
    /\ requests = <<>>
    /\ events = <<>>
    /\ fn = FnIdle
    /\ gate = GateIdle
    /\ ex = ExIdle
    /\ scrape = ScrapeIdle
    /\ upload = UploadIdle
    /\ admit \in {FilterStart(db, posts) : posts \in Batches(MaxRows)}

\* for (const post of posts): one pass of the loop body
FilterPost ==
    /\ admit.pc = "loop"
    /\ admit.i <= Len(admit.posts)
    /\ LET after == FilterStep(admit.acc, admit.posts[admit.i], admit.existingUrls,
                               admit.existingDescriptions)
       IN  admit' = [admit EXCEPT !.acc = after, !.i = @ + 1,
                                  !.outcomes = Append(@, FilterOutcome(admit.acc, after))]
    /\ UNCHANGED <<db, today, last, cron, requests, events, fn, gate, ex, scrape, upload>>

\* the loop has passed the last candidate
FilterCompleted ==
    /\ admit.pc = "loop"
    /\ admit.i > Len(admit.posts)
    /\ admit' = [admit EXCEPT !.pc = "filtered"]
    /\ UNCHANGED <<db, today, last, cron, requests, events, fn, gate, ex, scrape, upload>>

NextFilter ==
    \/ FilterPost
    \/ FilterCompleted

SpecFilter == InitFilter /\ [][NextFilter]_vars

----------------------------------------------------------------------------
(* The infolombait adapter: scrape() reads the thumbnails and the post titles
   of one listing page.  A URL is a scheme and the segments of its path; the
   value "" is the URL with scheme "empty". *)

IMAGE_LIMIT == 5

EmptyUrl == [scheme |-> "empty", path |-> <<>>]

\* the segments /s\d+(-c)?/ stands for
SizeSegments == {"s72-c", "s320", "s1600"}

\* url.replace(/\/s\d+(-c)?\//, "/s1600/"): the first size segment that
\* another segment follows becomes s1600
RECURSIVE ReplaceSize(_)
ReplaceSize(path) ==
    IF Len(path) < 2 THEN path
    ELSE IF Head(path) \in SizeSegments THEN <<"s1600">> \o Tail(path)
    ELSE <<Head(path)>> \o ReplaceSize(Tail(path))

normalizeImageUrl(url) == [url EXCEPT !.path = ReplaceSize(@)]

\* the null of extractBackgroundUrl
NoUrl == [scheme |-> "null", path |-> <<>>]

\* style attributes of a thumbnail: no url(...) in it, or a url(...) around
\* an absolute URL with a size segment, a relative one, an absolute one
\* without a size segment, or a text that new URL() rejects
ThumbStyles ==
    {[hasUrl |-> FALSE, url |-> EmptyUrl]}
        \cup {[hasUrl |-> TRUE, url |-> u] :
                 u \in {[scheme |-> "https", path |-> <<"s320", "a.jpg">>],
                        [scheme |-> "relative", path |-> <<"s72-c", "a.jpg">>],
                        [scheme |-> "https", path |-> <<"a.jpg">>],
                        [scheme |-> "invalid", path |-> <<>>]}}

\* style.match(/url\(([^)]+)\)/i): null when the style names no URL
extractBackgroundUrl(style) == IF style.hasUrl THEN style.url ELSE NoUrl

\* new URL(rawUrl, TARGET_URL).toString(), for a rawUrl it accepts
ResolveUrl(rawUrl) ==
    IF rawUrl.scheme = "relative" THEN [rawUrl EXCEPT !.scheme = "https"] ELSE rawUrl

\* the each() over the thumbnails: imagesArr
RECURSIVE ImagesArr(_, _)
ImagesArr(imagesArr, thumbs) ==
    IF thumbs = <<>> \/ Len(imagesArr) >= IMAGE_LIMIT THEN imagesArr
    ELSE LET rawUrl == extractBackgroundUrl(Head(thumbs))
         IN  IF rawUrl = NoUrl \/ rawUrl.scheme = "invalid"
             THEN ImagesArr(imagesArr, Tail(thumbs))
             ELSE ImagesArr(Append(imagesArr, normalizeImageUrl(ResolveUrl(rawUrl))),
                            Tail(thumbs))

\* title anchors of the page: with href and text, with text only, with neither
Anchors == {"href+title", "title", "neither"}

\* the each() over the title anchors, anchor number i first (i counts from 1
\* here): posts, each with imagesArr[i] ?? ""
RECURSIVE ListingPosts(_, _, _, _)
ListingPosts(posts, anchors, i, imagesArr) ==
    IF i > Len(anchors) \/ Len(posts) >= IMAGE_LIMIT THEN posts
    ELSE IF anchors[i] = "neither" THEN ListingPosts(posts, anchors, i + 1, imagesArr)
    ELSE ListingPosts(
            Append(posts, [title |-> <<"t">>,
                           link  |-> IF anchors[i] = "href+title" THEN U1 ELSE Blank,
                           image |-> IF i <= Len(imagesArr) THEN imagesArr[i]
                                     ELSE EmptyUrl]),
            anchors, i + 1, imagesArr)

\* the listing pages of at most n thumbnails and n title anchors
ListingPages(n) ==
    UNION {[thumbs : [1..a -> ThumbStyles], anchors : [1..b -> Anchors]] :
              a \in 0..n, b \in 0..n}

----------------------------------------------------------------------------
(* SpecListing: one scrape() of the infolombait adapter on a listing page *)

InitListing ==
    /\ db = <<>>
    /\ today = 1
    /\ last = NoInsert
    /\ cron = CronIdle
    /\ requests = <<>>
    /\ events = <<>>
    /\ fn = FnIdle
    /\ gate = GateIdle
    /\ ex = ExIdle
    /\ scrape \in {[pc |-> "fetched", page |-> page, posts |-> <<>>] :
                      page \in ListingPages(MaxRows)}
    /\ upload = UploadIdle
    /\ admit = AdmitIdle

\* scrape() from the parsed body to its return value
ScrapeListing ==
    /\ scrape.pc = "fetched"
    /\ scrape' = [scrape EXCEPT
                    !.pc = "returned",
                    !.posts = ListingPosts(<<>>, scrape.page.anchors, 1,
                                           ImagesArr(<<>>, scrape.page.thumbs))]
    /\ UNCHANGED <<db, today, last, cron, requests, events, fn, gate, ex, upload, admit>>

NextListing == ScrapeListing

SpecListing == InitListing /\ [][NextListing]_vars

----------------------------------------------------------------------------
(* SpecTwice: one extraction result applied again and again, to the
   accumulator of extractSingle by merge and to a stored record by
   updateSingleRecord *)

\* the accumulator and a provider answer as normalize() hands them to merge
NormalizedOutputs == {Normalize(raw) : raw \in RawOutputs}

InitTwice ==
    /\ db \in {InsertRows(<<>>, <<post>>) : post \in DraftPosts}
    /\ today = 1
    /\ last = NoInsert
    /\ cron = CronIdle
    /\ requests = <<>>
    /\ events = <<>>
    /\ \E ai \in AiResults : fn = [pc |-> "twice", ai |-> ai, n |-> 0, once |-> db]
    /\ gate = GateIdle
    /\ \E base \in NormalizedOutputs, update \in NormalizedOutputs :
         ex = [pc |-> "twice", base |-> base, update |-> update, data |-> base,
               n |-> 0, once |-> base]
    /\ scrape = ScrapeIdle
    /\ upload = UploadIdle
    /\ admit = AdmitIdle

\* data = merge(data, update), the first time and again
MergeAgain ==
    /\ ex.n < 2
    /\ ex' = [ex EXCEPT !.data = Merge(@, ex.update), !.n = @ + 1,
                        !.once = IF ex.n = 0 THEN Merge(ex.data, ex.update) ELSE @]
    /\ UNCHANGED <<db, today, last, cron, requests, events, fn, gate, scrape, upload, admit>>

\* updateSingleRecord(sql, id, ai), the first time and again; with no field
\* to set no UPDATE is sent
UpdateAgain ==
    /\ fn.n < 2
    /\ db' = IF BuildUpdateObject(fn.ai) = {} THEN db
             ELSE [db EXCEPT ![1] = UpdateRow(@, fn.ai)]
    /\ fn' = [fn EXCEPT !.n = @ + 1, !.once = IF fn.n = 0 THEN db' ELSE @]
    /\ UNCHANGED <<today, last, cron, requests, events, gate, ex, scrape, upload, admit>>

NextTwice == MergeAgain \/ UpdateAgain

SpecTwice == InitTwice /\ [][NextTwice]_vars

----------------------------------------------------------------------------
(* normalize(data), enumerated fields and pricing: a string is the sequence
   of its characters; categories, whose vocabulary test comes first in the
   same way, are left out *)

UpperCase == <<"A", "B", "C", "D", "E", "F", "G", "H", "I", "J", "K", "L", "M", "N", "O", "P", "Q", "R", "S", "T", "U", "V", "W", "X", "Y", "Z">>

LowerCase == <<"a", "b", "c", "d", "e", "f", "g", "h", "i", "j", "k", "l", "m", "n", "o", "p", "q", "r", "s", "t", "u", "v", "w", "x", "y", "z">>

Digits == <<"0", "1", "2", "3", "4", "5", "6", "7", "8", "9">>

IndexIn(c, chars) == CHOOSE i \in 1..Len(chars) : chars[i] = c

\* String.prototype.toUpperCase and toLowerCase
toUpperCase(s) ==
    [k \in 1..Len(s) |->
        IF s[k] \in Range(LowerCase) THEN UpperCase[IndexIn(s[k], LowerCase)] ELSE s[k]]

toLowerCase(s) ==
    [k \in 1..Len(s) |->
        IF s[k] \in Range(UpperCase) THEN LowerCase[IndexIn(s[k], UpperCase)] ELSE s[k]]

\* String.prototype.includes
Includes(s, sub) ==
    \E i \in 0..(Len(s) - Len(sub)) : SubSeq(s, i + 1, i + Len(sub)) = sub

VALID_LEVELS == {<<"S", "D">>, <<"S", "M", "P">>, <<"S", "M", "A">>, <<"M", "a", "h", "a", "s", "i", "s", "w", "a">>, <<"U", "m", "u", "m">>}

VALID_FORMATS == {<<"O", "n", "l", "i", "n", "e">>, <<"O", "f", "f", "l", "i", "n", "e">>, <<"H", "y", "b", "r", "i", "d">>}

VALID_PARTICIPATION == {<<"I", "n", "d", "i", "v", "i", "d", "u", "a", "l">>, <<"T", "e", "a", "m">>}

\* normalizeLevel(level): the vocabulary test is made on the upper-cased
\* token, the keywords are looked up in the lower-cased one, in this order
normalizeLevel(level) ==
    LET normalized == toUpperCase(Trim(level))
        lower      == toLowerCase(level)
    IN  IF level = <<>> THEN Null
        ELSE IF normalized \in VALID_LEVELS THEN normalized
        ELSE IF Includes(lower, <<"s", "d">>) \/ Includes(lower, <<"s", "e", "k", "o", "l", "a", "h", " ", "d", "a", "s", "a", "r">>) THEN <<"S", "D">>
        ELSE IF Includes(lower, <<"s", "m", "p">>) \/ Includes(lower, <<"m", " ", "t", "s">>) THEN <<"S", "M", "P">>
        ELSE IF Includes(lower, <<"s", "m", "a">>) \/ Includes(lower, <<"s", "m", "k">>) \/ Includes(lower, <<"m", "a">>) THEN <<"S", "M", "A">>
        ELSE IF Includes(lower, <<"m", "a", "h", "a", "s", "i", "s", "w", "a">>) \/ Includes(lower, <<"k", "u", "l", "i", "a", "h">>) \/ Includes(lower, <<"u", "n", "i", "v", "e", "r", "s", "i", "t", "a", "s">>)
        THEN <<"M", "a", "h", "a", "s", "i", "s", "w", "a">>
        ELSE IF Includes(lower, <<"u", "m", "u", "m">>) \/ Includes(lower, <<"p", "u", "b", "l", "i", "c">>) THEN <<"U", "m", "u", "m">>
        ELSE Null

\* normalizeFormat(format)
normalizeFormat(format) ==
    LET normalized == Trim(format)
        lower      == toLowerCase(normalized)
    IN  IF format = <<>> THEN Null
        ELSE IF normalized \in VALID_FORMATS THEN normalized
        ELSE IF Includes(lower, <<"o", "n", "l", "i", "n", "e">>) \/ Includes(lower, <<"d", "a", "r", "i", "n", "g">>) \/ Includes(lower, <<"z", "o", "o", "m">>) \/ Includes(lower, <<"g", "m", "e", "e", "t">>)
        THEN <<"O", "n", "l", "i", "n", "e">>
        ELSE IF Includes(lower, <<"o", "f", "f", "l", "i", "n", "e">>) \/ Includes(lower, <<"l", "u", "r", "i", "n", "g">>) \/ Includes(lower, <<"t", "a", "t", "a", "p", " ", "m", "u", "k", "a">>)
        THEN <<"O", "f", "f", "l", "i", "n", "e">>
        ELSE IF Includes(lower, <<"h", "y", "b", "r", "i", "d">>) \/ Includes(lower, <<"g", "a", "b", "u", "n", "g", "a", "n">>) THEN <<"H", "y", "b", "r", "i", "d">>
        ELSE Null

\* normalizeParticipationType(type)
normalizeParticipationType(type) ==
    LET normalized == Trim(type)
        lower      == toLowerCase(normalized)
    IN  IF type = <<>> THEN Null
        ELSE IF normalized \in VALID_PARTICIPATION THEN normalized
        ELSE IF Includes(lower, <<"i", "n", "d", "i", "v", "i", "d", "u">>) \/ Includes(lower, <<"i", "n", "d", "i", "v", "i", "d", "u", "a", "l">>) \/ Includes(lower, <<"p", "e", "r", "s", "o", "n", "a", "l">>)
        THEN <<"I", "n", "d", "i", "v", "i", "d", "u", "a", "l">>
        ELSE IF Includes(lower, <<"t", "i", "m">>) \/ Includes(lower, <<"t", "e", "a", "m">>) \/ Includes(lower, <<"k", "e", "l", "o", "m", "p", "o", "k">>) \/ Includes(lower, <<"g", "r", "o", "u", "p">>)
        THEN <<"T", "e", "a", "m">>
        ELSE Null

\* a list-or-null value of the cleaned object
NoList == [isNull |-> TRUE, items |-> <<>>]

List(items) == [isNull |-> FALSE, items |-> items]

\* array.map(f).filter(Boolean), null when nothing is left
MapKept(items, f(_)) ==
    LET mapped == [k \in 1..Len(items) |-> f(items[k])]
        kept   == SelectSeq(mapped, LAMBDA v : v # Null)
    IN  IF Len(kept) > 0 THEN List(kept) ELSE NoList

\* a provider value for an enumerated field: absent, one string, or an array
\* of strings
EnumNone == [kind |-> "null", text |-> <<>>, items |-> <<>>]

EnumString(text) == [kind |-> "string", text |-> text, items |-> <<>>]

EnumArray(items) == [kind |-> "array", text |-> <<>>, items |-> items]

\* cleaned.level
CleanedLevel(v) ==
    IF v.kind = "string"
    THEN IF normalizeLevel(v.text) # Null THEN List(<<normalizeLevel(v.text)>>) ELSE NoList
    ELSE IF v.kind = "array" /\ Len(v.items) > 0 THEN MapKept(v.items, normalizeLevel)
    ELSE NoList

\* cleaned.format
CleanedFormat(v) == IF v.kind = "string" THEN normalizeFormat(v.text) ELSE Null

\* cleaned.participationType
CleanedParticipationType(v) ==
    IF v.kind = "array" /\ Len(v.items) > 0
    THEN MapKept(v.items, normalizeParticipationType)
    ELSE IF v.kind = "string"
    THEN IF normalizeParticipationType(v.text) # Null
         THEN List(<<normalizeParticipationType(v.text)>>) ELSE NoList
    ELSE NoList

\* parseInt(cleaned, 10) of a string of digits
RECURSIVE ParseInt(_)
ParseInt(digits) ==
    IF digits = <<>> THEN 0
    ELSE 10 * ParseInt(SubSeq(digits, 1, Len(digits) - 1))
            + (IndexIn(digits[Len(digits)], Digits) - 1)

\* a scalar a provider may put where a price goes: kind is "number",
\* "string" or "undefined"
Scalar(kind, num, text) == [kind |-> kind, num |-> num, text |-> text]

Undefined == Scalar("undefined", 0, <<>>)

\* no number: what parseRupiah returns as null
NoNumber == [isNull |-> TRUE, num |-> 0]

Number(n) == [isNull |-> FALSE, num |-> n]

\* parseRupiah(value): a number as it is; of a string the digits, read as
\* one number
parseRupiah(value) ==
    IF value.kind = "number" THEN Number(value.num)
    ELSE IF value.kind # "string" \/ value.text = <<>> THEN NoNumber
    ELSE LET cleaned == SelectSeq(value.text, LAMBDA c : c \in Range(Digits))
         IN  IF cleaned = <<>> THEN NoNumber ELSE Number(ParseInt(cleaned))

\* JavaScript truthiness of a scalar
TruthyScalar(v) ==
    \/ v.kind = "number" /\ v.num # 0
    \/ v.kind = "string" /\ v.text # <<>>

\* an item of a pricing array: a number, a string, an object with or without
\* amount, or null
Item(kind, num, text, amount) ==
    [kind |-> kind, num |-> num, text |-> text, amount |-> amount]

\* the callback of data.pricing.map: a null item is an object to typeof, and
\* reading its amount throws
ItemThrows(p) == p.kind = "null"

ItemPrice(p) ==
    IF p.kind \in {"number", "string"} THEN parseRupiah(Scalar(p.kind, p.num, p.text))
    ELSE IF p.kind = "object" /\ TruthyScalar(p.amount) THEN parseRupiah(p.amount)
    ELSE NoNumber

\* a provider value for pricing
Pricing(kind, num, text, items, amount) ==
    [kind |-> kind, num |-> num, text |-> text, items |-> items, amount |-> amount]

OnePrice(n) == IF n.isNull THEN NoList ELSE List(<<n.num>>)

\* the pricing branch of normalize throws
PricingThrows(v) ==
    v.kind = "array" /\ \E k \in 1..Len(v.items) : ItemThrows(v.items[k])

\* cleaned.pricing
CleanedPricing(v) ==
    IF v.kind \in {"number", "string"} THEN OnePrice(parseRupiah(Scalar(v.kind, v.num, v.text)))
    ELSE IF v.kind = "array" /\ Len(v.items) > 0
    THEN LET mapped == [k \in 1..Len(v.items) |-> ItemPrice(v.items[k])]
             prices == SelectSeq(mapped, LAMBDA p : ~p.isNull)
         IN  IF Len(prices) > 0 THEN List([k \in 1..Len(prices) |-> prices[k].num])
             ELSE NoList
    ELSE IF v.kind = "object" /\ TruthyScalar(v.amount) THEN OnePrice(parseRupiah(v.amount))
    ELSE NoList

----------------------------------------------------------------------------
(* SpecNormalize: one call of normalize on a provider answer *)

LevelTexts ==
    VALID_LEVELS \cup {<<" ", "s", "m", "a", " ">>, <<"s", "m", "k">>, <<"k", "u", "l", "i", "a", "h">>, <<"x">>, <<>>}

RawLevels ==
    {EnumNone} \cup {EnumString(t) : t \in LevelTexts}
        \cup {EnumArray(<<<<"M", "a", "h", "a", "s", "i", "s", "w", "a">>, <<"U", "m", "u", "m">>>>),
              EnumArray(<<<<"x">>>>), EnumArray(<<>>)}

RawFormats ==
    {EnumNone} \cup {EnumString(t) : t \in VALID_FORMATS \cup {<<"d", "a", "r", "i", "n", "g">>, <<"x">>}}

RawParticipations ==
    {EnumNone} \cup {EnumString(t) : t \in VALID_PARTICIPATION \cup {<<"t", "i", "m">>}}
        \cup {EnumArray(<<<<"T", "e", "a", "m">>, <<"x">>>>)}

RupiahText == <<"R", "p", " ", "5", "0", ".", "0", "0", "0">>

PriceItems ==
    {Item("number", 50000, <<>>, Undefined),
     Item("string", 0, <<"g", "r", "a", "t", "i", "s">>, Undefined),
     Item("object", 0, <<>>, Scalar("string", 0, RupiahText)),
     Item("object", 0, <<>>, Undefined),
     Item("null", 0, <<>>, Undefined)}

RawPricings ==
    {Pricing("null", 0, <<>>, <<>>, Undefined),
     Pricing("number", 50000, <<>>, <<>>, Undefined),
     Pricing("number", 0, <<>>, <<>>, Undefined),
     Pricing("string", 0, RupiahText, <<>>, Undefined),
     Pricing("string", 0, <<"g", "r", "a", "t", "i", "s">>, <<>>, Undefined),
     Pricing("string", 0, <<>>, <<>>, Undefined),
     Pricing("array", 0, <<>>, <<>>, Undefined),
     Pricing("object", 0, <<>>, <<>>, Scalar("number", 50000, <<>>)),
     Pricing("object", 0, <<>>, <<>>, Scalar("string", 0, <<"g", "r", "a", "t", "i", "s">>)),
     Pricing("object", 0, <<>>, <<>>, Undefined)}
        \cup {Pricing("array", 0, <<>>, <<p>>, Undefined) : p \in PriceItems}
        \cup {Pricing("array", 0, <<>>, <<p, q>>, Undefined) : p, q \in PriceItems}

RawEnums ==
    [level : RawLevels, format : RawFormats, participationType : RawParticipations,
     pricing : RawPricings]

NoCleaned ==
    [level |-> NoList, format |-> Null, participationType |-> NoList, pricing |-> NoList]

InitNormalize ==
    /\ db = <<>>
    /\ today = 1
    /\ last = NoInsert
    /\ cron = CronIdle
    /\ requests = <<>>
    /\ events = <<>>
    /\ fn = FnIdle
    /\ gate = GateIdle
    /\ \E data \in RawEnums : ex = [pc |-> "raw", data |-> data, cleaned |-> NoCleaned]
    /\ scrape = ScrapeIdle
    /\ upload = UploadIdle
    /\ admit = AdmitIdle

\* normalize(data) returns the cleaned object, or throws
NormalizeCall ==
    /\ ex.pc = "raw"
    /\ ex' = IF PricingThrows(ex.data.pricing) THEN [ex EXCEPT !.pc = "threw"]
             ELSE [ex EXCEPT !.pc = "returned",
                             !.cleaned = [level |-> CleanedLevel(ex.data.level),
                                          format |-> CleanedFormat(ex.data.format),
                                          participationType |->
                                              CleanedParticipationType(ex.data.participationType),
                                          pricing |-> CleanedPricing(ex.data.pricing)]]
    /\ UNCHANGED <<db, today, last, cron, requests, events, fn, gate, scrape, upload, admit>>

NextNormalize == NormalizeCall

SpecNormalize == InitNormalize /\ [][NextNormalize]_vars

----------------------------------------------------------------------------
(* SpecIgPasses: one call of scrape() of the Instagram source whose
   scrapeOnce works in two passes: every account once, then, after one
   delay, the accounts that failed with a retryable error once more *)

\* scrapeOnce entered by the round-th iteration of scrape; lastFetch is what
\* the last getPosts of each account came to in this call
PassesStart(round) ==
    [pc |-> "pass1", round |-> round, account |-> 1, retry |-> 1,
     posts |-> 0, failedAccounts |-> <<>>, errors |-> <<>>,
     lastFetch |-> [a \in 1..Len(Accounts) |-> "none"], count |-> 0]

InitIgPasses ==
    /\ db = <<>>
    /\ today = 1
    /\ last = NoInsert
    /\ cron = CronIdle
    /\ requests = <<>>
    /\ events = <<>>
    /\ fn = FnIdle
    /\ gate = GateIdle
    /\ ex = ExIdle
    /\ scrape = PassesStart(1)
    /\ upload = UploadIdle
    /\ admit = AdmitIdle

\* const errors = failedAccounts.map(...): scrapeOnce returns
PassesEnd(st) == [st EXCEPT !.pc = "judge", !.errors = st.failedAccounts]

\* Pass 1, one account: getPosts; a retryable failure puts the account in
\* failedAccounts, another failure is logged only
Pass1Fetch ==
    /\ scrape.pc = "pass1"
    /\ \E o \in GetPostsOutcomes :
          LET a  == scrape.account
              st == [scrape EXCEPT
                        !.posts = @ + o.validPosts,
                        !.lastFetch[a] = IF o.success THEN "ok" ELSE "failed",
                        !.failedAccounts =
                            IF ~o.success /\ o.isRetryable THEN Append(@, a) ELSE @]
          IN  scrape' = IF a < Len(Accounts) THEN [st EXCEPT !.account = a + 1]
                        ELSE IF Len(st.failedAccounts) > 0 THEN [st EXCEPT !.pc = "pass2"]
                        ELSE PassesEnd(st)
    /\ UNCHANGED <<db, today, last, cron, requests, events, fn, gate, ex, upload, admit>>

\* Pass 2, one failed account: getPosts again; a failure is logged only
Pass2Fetch ==
    /\ scrape.pc = "pass2"
    /\ \E o \in GetPostsOutcomes :
          LET a  == scrape.failedAccounts[scrape.retry]
              st == [scrape EXCEPT
                        !.posts = @ + o.validPosts,
                        !.lastFetch[a] = IF o.success THEN "ok" ELSE "failed"]
          IN  scrape' = IF scrape.retry < Len(scrape.failedAccounts)
                        THEN [st EXCEPT !.retry = @ + 1]
                        ELSE PassesEnd(st)
    /\ UNCHANGED <<db, today, last, cron, requests, events, fn, gate, ex, upload, admit>>

\* scrape: scrapeOnce returned with a success
PassesReturn ==
    /\ scrape.pc = "judge"
    /\ IsSuccess(scrape.posts, scrape.errors)
    /\ scrape' = [scrape EXCEPT !.pc = "returned", !.count = scrape.posts]
    /\ UNCHANGED <<db, today, last, cron, requests, events, fn, gate, ex, upload, admit>>

\* scrape: no success; wait retryDelayMs and call scrapeOnce again
PassesAgain ==
    /\ scrape.pc = "judge"
    /\ ~IsSuccess(scrape.posts, scrape.errors)
    /\ scrape.round < MaxRounds
    /\ scrape' = PassesStart(scrape.round + 1)
    /\ UNCHANGED <<db, today, last, cron, requests, events, fn, gate, ex, upload, admit>>

NextIgPasses ==
    \/ Pass1Fetch
    \/ Pass2Fetch
    \/ PassesReturn
    \/ PassesAgain

SpecIgPasses == InitIgPasses /\ [][NextIgPasses]_vars

----------------------------------------------------------------------------
(* SpecWorkflow: two runs of a single-function workflow
   (competitionWorkflowWeb, competitionWorkflowIG) on one store, their
   steps insert-to-db and ai-extraction interleaved by the engine *)

Runs == 1..2

\* a run before its step insert-to-db
WfStart ==
    [pc |-> "insert", insertCount |-> 0, inserted |-> <<>>, fetched |-> <<>>]

\* SELECT ... WHERE status = 'draft' ORDER BY "createdAt" DESC LIMIT newCount:
\* the ids of the newCount drafts stored last, newest first (createdAt is the
\* time of the INSERT, so it grows with the id)
FetchNewDrafts(d, newCount) ==
    LET drafts == SelectSeq([i \in 1..Len(d) |-> Len(d) + 1 - i],
                            LAMBDA id : d[id].status = "draft")
    IN  SubSeq(drafts, 1, IF newCount < Len(drafts) THEN newCount ELSE Len(drafts))

RECURSIVE UpdateFetched(_, _, _)
\* the loop of extractData over the fetched posts: each post whose
\* extraction gave valid data is updated at once
UpdateFetched(d, ids, outs) ==
    IF ids = <<>> THEN d
    ELSE LET o  == Head(outs)
             d1 == IF o.kind = "ok" /\ BuildUpdateObject(o.ai) # {}
                   THEN [d EXCEPT ![Head(ids)] = UpdateRow(@, o.ai)] ELSE d
         IN  UpdateFetched(d1, Tail(ids), Tail(outs))

InitWorkflow ==
    /\ db = <<>>
    /\ today = 1
    /\ last = NoInsert
    /\ cron = CronIdle
    /\ requests = <<>>
    /\ events = <<>>
    /\ fn = [r \in Runs |-> WfStart]
    /\ gate = GateIdle
    /\ ex = ExIdle
    /\ scrape = ScrapeIdle
    /\ upload = UploadIdle
    /\ admit = AdmitIdle

\* step insert-to-db of run r: insertToDb(uploadedPosts, env); the run ends
\* when nothing was inserted and fails when insertToDb throws
WfInsert(r) ==
    /\ fn[r].pc = "insert"
    /\ \E posts \in Batches(MaxRows - Len(db)), f \in DbFaults :
         LET res == InsertToDb(db, posts, f)
             insertCount == res.res.count
         IN  /\ db' = res.db
             /\ fn' = [fn EXCEPT ![r] =
                          IF res.res.kind = "threw" THEN [@ EXCEPT !.pc = "failed"]
                          ELSE IF insertCount = 0 THEN [@ EXCEPT !.pc = "done"]
                          ELSE [@ EXCEPT !.pc = "extract", !.insertCount = insertCount,
                                         !.inserted = res.res.newRecordIds]]
    /\ UNCHANGED <<today, last, cron, requests, events, gate, ex, scrape, upload, admit>>

\* step ai-extraction of run r: extractData(insertCount, [], env) fetches
\* the newest drafts, extracts each and updates it
WfExtract(r) ==
    /\ fn[r].pc = "extract"
    /\ LET ids == FetchNewDrafts(db, fn[r].insertCount)
       IN  \E outs \in [1..Len(ids) -> ExtractOutcomes] :
             /\ db' = UpdateFetched(db, ids, outs)
             /\ fn' = [fn EXCEPT ![r] = [@ EXCEPT !.pc = "done", !.fetched = ids]]
    /\ UNCHANGED <<today, last, cron, requests, events, gate, ex, scrape, upload, admit>>

NextWorkflow ==
    \/ \E r \in Runs : WfInsert(r)
    \/ \E r \in Runs : WfExtract(r)

SpecWorkflow == InitWorkflow /\ [][NextWorkflow]_vars

----------------------------------------------------------------------------
(* Claims about extraction *)

\* C11: no step overwrites a field of a row that was non-null and non-empty
\* before the step: a stored title or endDate keeps its value.
C11_StoredFieldsKept ==
    [][\A id \in 1..Len(db) :
          /\ Truthy(db[id].title) => db'[id].title = db[id].title
          /\ ~db[id].endDate.isNull => db'[id].endDate = db[id].endDate]_vars

\* the calls of the run whose answer reached merge with a value for field f
Suppliers(f) ==
    {k \in 1..Len(ex.calls) : ex.calls[k].merged /\ HasValue(ex.calls[k].parsed[f])}

\* the provider whose answer first supplied field f
FirstSupplier(f) ==
    IF Suppliers(f) = {} THEN "none"
    ELSE ex.calls[CHOOSE k \in Suppliers(f) : \A j \in Suppliers(f) : k <= j].provider

\* C12: when extractSingle has returned, every non-null field of the
\* accumulator has as provenance the provider that first supplied it.
C12_ProvenanceOfFirstSupplier ==
    ex.pc = "returned" =>
        \A f \in Fields :
            ex.data[f] # Null => ex.fieldSource[f] = FirstSupplier(f)

\* the calls the run made to one provider
CallsTo(provider) == {k \in 1..Len(ex.calls) : ex.calls[k].provider = provider}

MistralThrew == \E k \in CallsTo("mistral") : ex.calls[k].threw

\* the primary answered and its normalized answer failed the canonical schema
MistralInvalid ==
    \E k \in CallsTo("mistral") :
        ~ex.calls[k].threw /\ ~SafeParseSuccess(ex.calls[k].parsed)

MistralValid ==
    \E k \in CallsTo("mistral") :
        ~ex.calls[k].threw /\ SafeParseSuccess(ex.calls[k].parsed)

AfterFallbackStep == ex.pc \in {"validate", "returned"}

\* C13 as stated: the fallback provider is called if and only if the primary
\* provider's normalized output failed schema validation.
C13_FallbackIffInvalid ==
    AfterFallbackStep => (CallsTo("gemini") # {} <=> MistralInvalid)

\* C13: the fallback provider is called if and only if the primary provider
\* threw or its normalized output failed schema validation; a primary output
\* that validates never triggers the fallback.
C13_FallbackIffPrimaryFailed ==
    AfterFallbackStep =>
        /\ CallsTo("gemini") # {} <=> (MistralInvalid \/ MistralThrew)
        /\ MistralValid => CallsTo("gemini") = {}

\* the primary answered with a title only, which validates, and the run went
\* on without the fallback
C13_Witness ==
    /\ ex.pc = "returned"
    /\ MistralValid
    /\ \E k \in CallsTo("mistral") :
          /\ ex.calls[k].parsed.title # Null
          /\ ex.calls[k].parsed.location = Null
    /\ CallsTo("gemini") = {}

\* what the text step contributed to the accumulator
TextContribution ==
    IF \E k \in CallsTo("zai") : ~ex.calls[k].threw
    THEN LET k == CHOOSE k \in CallsTo("zai") : ~ex.calls[k].threw
         IN  [f \in Fields |->
                 IF HasValue(ex.calls[k].parsed[f]) THEN ex.calls[k].parsed[f] ELSE Null]
    ELSE EmptyData

\* C14: when the primary provider call threw, the fallback is invoked exactly
\* once; when the fallback threw too, the accumulator holds exactly what the
\* text step contributed.
C14_FallbackOnceTextOnly ==
    (AfterFallbackStep /\ MistralThrew) =>
        /\ Cardinality(CallsTo("gemini")) = 1
        /\ (\E k \in CallsTo("gemini") : ex.calls[k].threw) => ex.data = TextContribution

\* both image providers threw after the text step had supplied a title
C14_Witness ==
    /\ ex.pc = "returned"
    /\ MistralThrew
    /\ \E k \in CallsTo("gemini") : ex.calls[k].threw
    /\ ex.data.title # Null
    /\ ex.data = TextContribution

\* no call of the run yielded a value for any field
NothingRecoverable ==
    \A k \in 1..Len(ex.calls) : \A f \in Fields : ~HasValue(ex.calls[k].parsed[f])

\* C15: extractSingle returns for every combination of provider outcomes; the
\* text provider is called at most once and only for a non-blank description;
\* with nothing recoverable the result carries the empty accumulator.
C15_AlwaysReturns ==
    /\ <>(ex.pc = "returned" /\ ex.extractionSuccess)
    /\ [](/\ Cardinality(CallsTo("zai")) <= 1
          /\ CallsTo("zai") # {} =>
                 (ex.description # Null /\ Trim(ex.description) # Blank)
          /\ (ex.pc = "returned" /\ NothingRecoverable) =>
                 (ex.data = EmptyData /\ ex.aiAnalysis = EmptyData))

\* all three providers were called and threw, and the call returned
C15_Witness ==
    /\ ex.pc = "returned"
    /\ Len(ex.calls) = 3
    /\ \A k \in 1..3 : ex.calls[k].threw
    /\ ex.aiAnalysis = EmptyData
    /\ ex.extractionSuccess

----------------------------------------------------------------------------
(* Claims about the sources *)

\* a pipeline of the running fan-out has settled with admitted records
SomeSourceAdmitted ==
    /\ cron.pc = "pipelines"
    /\ \E i \in Sources : cron.pipes[i].pc = "done" /\ cron.pipes[i].newRecordIds # <<>>

\* C16: whatever another source does, the records a source admitted reach the
\* caller: the fan-out returns and hands them on.  (Runs in which the store
\* of the model fills up are left aside: there a source has no post to give.)
C16_AdmittedReachCaller ==
    (SomeSourceAdmitted /\ Len(db) < MaxRows)
        ~> (cron.pc # "pipelines" \/ Len(db) = MaxRows)

\* min(5000 * 1.5^k, 60000) ms, as a fraction over 2^k
ExpectedWait(k) ==
    IF 5000 * Pow(3, k) <= 60000 * Pow(2, k)
    THEN Ms(5000 * Pow(3, k), Pow(2, k))
    ELSE Ms(60000 * Pow(2, k), Pow(2, k))

SameMs(a, b) == a.num * b.den = b.num * a.den

\* C17: a web source scrapes again after every failed attempt, a throw and a
\* zero count alike; the wait after the k-th failed attempt is
\* min(5000 * 1.5^k, 60000) ms; the run goes on to the upload and the insert
\* only after an attempt that returned at least one candidate.
C17_RetryUntilCandidates ==
    (scrape.pc # "idle" /\ scrape.isWebSource) =>
        /\ scrape.pc \in {"scrape", "sleep", "r2db"}
        /\ LET failed == SelectSeq(scrape.outcomes, LAMBDA o : o.threw \/ o.count = 0)
           IN  /\ Len(scrape.waits) = Len(failed)
               /\ scrape.retryAttempts = Len(failed)
               /\ \A k \in 1..Len(scrape.waits) : SameMs(scrape.waits[k], ExpectedWait(k))
        /\ scrape.pc = "r2db" =>
               /\ scrape.count >= 1
               /\ ~scrape.outcomes[Len(scrape.outcomes)].threw
               /\ scrape.outcomes[Len(scrape.outcomes)].count >= 1
        /\ scrape.pc = "scrape" =>
               \A k \in 1..Len(scrape.outcomes) :
                   scrape.outcomes[k].threw \/ scrape.outcomes[k].count = 0

\* a web source went on after a throw, a zero count and five more failures,
\* the last wait being the 60 s cap
C17_Witness ==
    /\ scrape.pc = "r2db"
    /\ scrape.isWebSource
    /\ scrape.retryAttempts = 7
    /\ scrape.outcomes[1].threw
    /\ ~scrape.outcomes[2].threw /\ scrape.outcomes[2].count = 0
    /\ scrape.waits[1] = Ms(15000, 2)
    /\ scrape.waits[7] = Ms(60000, 1)

\* C18: in one call of scrape() of the Instagram source no account is
\* fetched more than MAX_RETRY_PER_ACCOUNT (3) times.
C18_AtMostThreeFetches ==
    scrape.pc \in {"fetch", "judge", "returned"} =>
        \A a \in 1..Len(Accounts) : scrape.fetches[a] <= MAX_RETRY_PER_ACCOUNT

\* the sum of f over the sources
RECURSIVE SumOverSources(_, _)
SumOverSources(f(_), n) == IF n = 0 THEN 0 ELSE f(n) + SumOverSources(f, n - 1)

CountOfFulfilled(i) ==
    IF scrape.outcomes[i].status = "fulfilled" THEN scrape.outcomes[i].value.count ELSE 0

PostsFrom(i) == Len(SelectSeq(scrape.posts, LAMBDA post : post[1] = i))

ErrorsExpected(i) ==
    IF scrape.outcomes[i].status = "fulfilled"
    THEN Len(scrape.outcomes[i].value.errors) ELSE 1

\* C19: the count scrapeAllSources returns is the sum of the counts of the
\* sources that returned; a source whose adapter threw contributes no
\* candidate and exactly one error entry.
C19_CountIsSumOfFulfilled ==
    scrape.pc = "collected" =>
        /\ scrape.count = SumOverSources(CountOfFulfilled, Len(SourceNames))
        /\ scrape.count = Len(scrape.posts)
        /\ \A i \in Sources :
              scrape.outcomes[i].status = "rejected" => PostsFrom(i) = 0
        /\ Len(scrape.errors) = SumOverSources(ErrorsExpected, Len(SourceNames))
        /\ Len(SelectSeq(scrape.errors, LAMBDA e : e = "unknown"))
               = Cardinality({i \in Sources : scrape.outcomes[i].status = "rejected"})

\* one adapter threw, the two others returned three candidates together
C19_Witness ==
    /\ scrape.pc = "collected"
    /\ scrape.outcomes[2].status = "rejected"
    /\ scrape.outcomes[1].status = "fulfilled"
    /\ scrape.outcomes[3].status = "fulfilled"
    /\ scrape.count = 3
    /\ Len(scrape.errors) = 1

----------------------------------------------------------------------------
(* Claims about the relocation of images *)

\* C20: uploadToR2 returns a list of the length and in the order of its
\* input; the image of an item is the storage URL when its upload succeeded
\* and the upstream value otherwise; every other field is as it was.
C20_SameItemsImageRelocatedOrKept ==
    upload.pc = "returned" =>
        /\ Len(upload.returned) = Len(upload.posts)
        /\ \A k \in 1..Len(upload.posts) :
              LET before == upload.posts[k]
                  after  == upload.returned[k]
              IN  /\ after.title = before.title
                  /\ after.username = before.username
                  /\ after.link = before.link
                  /\ IF upload.hasBucket /\ upload.results[k]
                     THEN Head(after.image) = "r2"
                     ELSE after.image = before.image
                  /\ (upload.hasBucket /\ upload.results[k]) => ~InvalidUrl(before.image)

\* a call returned one relocated image, one kept after the retries ran out
\* or a fatal error, the order kept
C20_Witness ==
    /\ upload.pc = "returned"
    /\ upload.hasBucket
    /\ Len(upload.posts) = 2
    /\ upload.results = <<FALSE, TRUE>>
    /\ upload.posts[1].image = <<"http", "a">>
    /\ upload.returned[1].image = <<"http", "a">>
    /\ upload.returned[2].image[1] = "r2"

----------------------------------------------------------------------------
(* Claims about failures of the store and the summary of a run *)

\* admission of a pipeline of the finished run met a database failure: the
\* posts of the pipeline reached insertToDb without DATABASE_URL, or a query
\* of insertToDb failed (a web pipeline ends with an error in no other way)
DbFailureInRun ==
    \E i \in Sources :
        \/ ~cron.hasDbUrl /\ cron.pipes[i].scraped > 0 /\ cron.pipes[i].pc = "done"
        \/ IsWebSource(i) /\ cron.pipes[i].errors

\* C21: a run in which admission met a database failure does not end with a
\* summary that reports success.
C21_DbFailureNotSuccess ==
    (cron.pc = "done" /\ DbFailureInRun) => ~cron.success

\* C22: the error list of the summary of a finished run holds the error of
\* every source pipeline that ended with one, also when no record was admitted.
C22_SummaryHasEveryError ==
    cron.pc = "done" =>
        \A i \in Sources : cron.pipes[i].errors => SourceNames[i] \in Range(cron.errors)

\* C23: when insertToDb ends, with a result or with an error, either every
\* admitted candidate was inserted and its id is in newRecordIds, or no
\* candidate was inserted.
C23_InsertAllOrNothing ==
    [][LET inserted == Len(db') - Len(db)
       IN  \/ inserted = 0
           \/ /\ last'.kind = "ok"
              /\ inserted = last'.count
              /\ last'.newRecordIds = NewIds(Len(db), inserted)]_vars

----------------------------------------------------------------------------
(* Claims about candidates without a key *)

BlankDescription(post) == Trim(Coalesce(post.description)) = Blank

\* no row of the store has the link of the candidate as its urlsource
NoUrlMatch(post) ==
    \/ Coalesce(post.link) = Blank
    \/ \A r \in 1..Len(db) : db[r].urlsource # post.link

\* C24: a candidate whose description is empty or whitespace-only is never
\* rejected for a description match, a candidate without a link is never
\* rejected for a URL match, and every candidate with a blank description and
\* no matching URL is admitted, however many of them the batch holds.
C24_BlankKeysNeverMatch ==
    \A k \in 1..Len(admit.outcomes) :
        LET post == admit.posts[k]
        IN  /\ BlankDescription(post) =>
                admit.outcomes[k] \notin {"skippedDescription", "skippedDuplication"}
            /\ Coalesce(post.link) = Blank => admit.outcomes[k] # "skippedUrl"
            /\ (BlankDescription(post) /\ NoUrlMatch(post)) => admit.outcomes[k] = "pushed"

\* a store whose row has a whitespace-only description, and a batch of two
\* candidates with blank descriptions, one of them whitespace-only and one
\* without a link, that the loop has passed
C24_Witness ==
    /\ admit.pc = "filtered"
    /\ \E r \in 1..Len(db) : db[r].description # Blank /\ Trim(db[r].description) = Blank
    /\ \E k, l \in 1..Len(admit.posts) :
          /\ k < l
          /\ BlankDescription(admit.posts[k]) /\ BlankDescription(admit.posts[l])
          /\ admit.posts[k].description # Null
          /\ admit.posts[l].link = Null
          /\ admit.outcomes[k] = "pushed" /\ admit.outcomes[l] = "pushed"

----------------------------------------------------------------------------
(* Claims about the listing page *)

\* C25: every post scrape() of the infolombait adapter returns has an image
\* that is a non-empty absolute https URL with the size segment s1600,
\* whatever the number of thumbnails relative to the number of post titles.
C25_EveryImageNormalized ==
    scrape.pc = "returned" =>
        \A k \in 1..Len(scrape.posts) :
            /\ scrape.posts[k].image.scheme = "https"
            /\ \E j \in 1..Len(scrape.posts[k].image.path) :
                  scrape.posts[k].image.path[j] = "s1600"

----------------------------------------------------------------------------
(* Claims about pipelines that admit at the same time *)

\* C26: while the source pipelines of a run read the existing keys and insert
\* their candidates side by side, no two persisted records have the same
\* non-empty urlsource or the same non-empty trimmed description.
C26_NoDuplicateKeysAcrossPipelines ==
    \A i, j \in 1..Len(db) :
        i # j =>
            /\ Truthy(db[i].urlsource) => db[i].urlsource # db[j].urlsource
            /\ Trim(db[i].description) # Blank
                   => Trim(db[i].description) # Trim(db[j].description)

----------------------------------------------------------------------------
(* Claims about the accumulator of extractSingle *)

\* C27: a step of extractSingle leaves every accumulator field that holds a
\* value as it is, and a field that changes was null or empty and takes the
\* value the provider of that step answered; so a value once set never
\* changes while the providers are called.
C27_SetFieldsNeverChange ==
    [][\A f \in Fields :
          /\ HasValue(ex.data[f]) => ex'.data[f] = ex.data[f]
          /\ ex'.data[f] # ex.data[f] =>
                /\ Len(ex'.calls) = Len(ex.calls) + 1
                /\ ex'.data[f] = ex'.calls[Len(ex'.calls)].parsed[f]]_vars

\* two providers were merged that answered different values for one field,
\* and the accumulator holds the value of the earlier one
C27_Witness ==
    \E f \in Fields, k, l \in 1..Len(ex.calls) :
        /\ k < l
        /\ ex.calls[k].merged /\ ex.calls[l].merged
        /\ HasValue(ex.calls[k].parsed[f]) /\ HasValue(ex.calls[l].parsed[f])
        /\ ex.calls[k].parsed[f] # ex.calls[l].parsed[f]
        /\ ex.data[f] = ex.calls[k].parsed[f]

\* C28: when the final accumulator fails the schema, the returned aiAnalysis
\* holds exactly its non-null fields that pass the schema of their own, each
\* with the value of the accumulator; when it passes, aiAnalysis is the whole
\* accumulator.
C28_ValidFieldsReturned ==
    ex.pc = "returned" =>
        IF SafeParseSuccess(ex.data)
        THEN ex.aiAnalysis = ex.data
        ELSE \A f \in Fields :
                IF ex.data[f] # Null /\ FieldValid(f, ex.data[f])
                THEN ex.aiAnalysis[f] = ex.data[f]
                ELSE ex.aiAnalysis[f] = Null

\* a call returned whose accumulator failed the schema, with one field kept
\* and one field left out
C28_Witness ==
    /\ ex.pc = "returned"
    /\ ~SafeParseSuccess(ex.data)
    /\ \E f, g \in Fields :
          /\ ex.data[f] # Null /\ ex.aiAnalysis[f] = ex.data[f]
          /\ ex.data[g] # Null /\ ex.aiAnalysis[g] = Null

----------------------------------------------------------------------------
(* Claims about the attempts of uploadSingleImage *)

\* the failures after which another attempt is due
RetryableFailure(error) == error.class \in {"timeout", "reset", "5xx"}

\* uploadSingleImage is between two passes of its attempt loop
BetweenAttempts == upload.pc = "posts" /\ upload.attempt > 0

\* uploadSingleImage has returned for the post before post i
ItemEnded == upload.hasBucket /\ upload.attempt = 0 /\ upload.i > 1

\* C29: uploadSingleImage fetches at most maxAttempts times; it goes to
\* another attempt only after a retryable failure (timeout, connection reset,
\* 5xx) and does so while attempts remain; a failure that is not retryable
\* (4xx, empty body) ends the item with that attempt; an invalid URL is never
\* fetched; and it sleeps between two attempts only, never after the last.
C29_AttemptsAndRetries ==
    /\ upload.fetches <= maxAttempts
    /\ BetweenAttempts =>
          /\ RetryableFailure(upload.lastError)
          /\ upload.fetches < maxAttempts
          /\ upload.sleeps = upload.fetches
    /\ ItemEnded =>
          IF InvalidUrl(upload.posts[upload.i - 1].image)
          THEN upload.fetches = 0 /\ upload.sleeps = 0
          ELSE /\ upload.fetches >= 1
               /\ upload.sleeps = upload.fetches - 1
               /\ RetryableFailure(upload.lastError) => upload.fetches = maxAttempts

\* an item that ended at its second attempt on a failure that is not
\* retryable, after a retryable one, in a call whose first item failed
C29_Witness ==
    /\ ItemEnded
    /\ upload.fetches = 2
    /\ upload.lastError.class \in {"4xx", "empty"}
    /\ upload.i > 2
    /\ ~upload.results[1]

----------------------------------------------------------------------------
(* Claims about delivered records *)

Delivered(d) == {i \in 1..Len(d) : d[i].whatsappChannel = "true"}

\* C30: a record whose whatsappChannel is true keeps it: no gate run and no
\* day resets it, the UPDATE of extraction does not write it, and no later
\* gate run selects the record or sends it.
C30_DeliveredStaysDelivered ==
    [][\A i \in Delivered(db) :
          /\ i \in Delivered(db')
          /\ \A ai \in AiResults : UpdateRow(db[i], ai).whatsappChannel = "true"
          /\ (gate' # gate) =>
                /\ i \notin Range(gate'.comps)
                /\ Len(gate'.sends) <= Len(gate'.comps)]_vars

\* a gate run selected a record while the store held a delivered record with
\* title and poster and without endDate, which the run left out
C30_Witness ==
    /\ gate.pc = "done"
    /\ gate.queried
    /\ gate.comps # <<>>
    /\ \E i \in Delivered(db) :
          /\ i \notin gate.failed
          /\ i \notin Range(gate.comps)
          /\ Truthy(db[i].title)
          /\ Truthy(db[i].poster)
          /\ db[i].endDate.isNull

----------------------------------------------------------------------------
(* Claims about the submission of admitted records *)

\* an event of the running invocation carries the id
Submitted(id) == \E k \in 1..Len(events) : id \in Range(events[k].recordIds)

\* scheduled runs keep starting and keep returning
RunsRecur == []<>(cron.pc = "pipelines") /\ []<>(cron.pc = "done")

\* C31: while scheduled runs keep coming, every record in the store is
\* eventually carried by an event to the batch function, also when the
\* trigger request or the event of the run that admitted it failed.
C31_AdmittedEventuallySubmitted ==
    RunsRecur => \A id \in 1..MaxRows : (id <= Len(db)) ~> Submitted(id)

----------------------------------------------------------------------------
(* Claims about the storage keys *)

\* C32: two different items of a call that were both relocated have
\* different storage keys, so neither poster is written over the other.
C32_DistinctStorageKeys ==
    \A k, l \in 1..Len(upload.updatedPosts) :
        (k # l /\ upload.results[k] /\ upload.results[l])
            => upload.updatedPosts[k].image # upload.updatedPosts[l].image

----------------------------------------------------------------------------
(* Claims about normalization *)

\* C33: whatever a provider answers, the object normalize() makes of the
\* answer passes the canonical schema, contact included, so no answer of the
\* primary image provider is rejected for what normalize() made of it.
C33_NormalizedPassesSchema ==
    \A k \in 1..Len(ex.calls) :
        ~ex.calls[k].threw => SafeParseSuccess(ex.calls[k].parsed)

----------------------------------------------------------------------------
(* Claims about applying a result again *)

\* C34: merging the same provider answer into the accumulator a second time,
\* and applying the same update to the same record a second time, leave the
\* state that the first application produced.
C34_TwiceIsOnce ==
    /\ ex.n = 2 => ex.data = ex.once
    /\ fn.n = 2 => db = fn.once

\* both applied twice, the first application having changed the accumulator
\* and the record
C34_Witness ==
    /\ ex.n = 2 /\ ex.once # ex.base
    /\ fn.n = 2 /\ db[1].title = <<"T">> /\ ~db[1].endDate.isNull

----------------------------------------------------------------------------
(* Claims about the batches *)

\* the groups of the run, in the order chunk made them
RunBatches == [k \in 1..Len(fn.steps) |-> fn.steps[k].batchIds]

RECURSIVE Joined(_)
Joined(groups) == IF groups = <<>> THEN <<>> ELSE Head(groups) \o Joined(Tail(groups))

\* C35: chunk(recordIds, 2) cuts the list into consecutive groups in order:
\* joined they are the list, each holds one or two ids, only the last may hold
\* one, and an empty list gives no group.
C35_ChunkPartitions ==
    /\ chunk(<<>>, batchSize) = <<>>
    /\ fn.pc # "idle" =>
         /\ Joined(RunBatches) = fn.recordIds
         /\ \A k \in 1..Len(RunBatches) :
              /\ Len(RunBatches[k]) \in 1..batchSize
              /\ k < Len(RunBatches) => Len(RunBatches[k]) = batchSize

\* a run whose list is cut into more than one group, the last one short
C35_Witness ==
    /\ fn.pc = "batches"
    /\ Len(RunBatches) > 1
    /\ Len(RunBatches[Len(RunBatches)]) < batchSize

----------------------------------------------------------------------------
(* Claims about connections *)

\* C36: when a delivery run has returned or thrown, every database connection
\* it opened has been closed.
C36_ConnectionsClosed == gate.pc = "done" => gate.closed = gate.opened

----------------------------------------------------------------------------
(* Claims about enumerated fields and pricing *)

\* the list a canonical array of tokens is expected to stay
SameList(v) == IF v.kind = "string" THEN List(<<v.text>>) ELSE List(v.items)

Canonical(v, vocabulary) ==
    \/ v.kind = "string" /\ v.text \in vocabulary
    \/ v.kind = "array" /\ Len(v.items) > 0 /\ Range(v.items) \subseteq vocabulary

\* C37: a token of the canonical vocabulary comes out of normalization as it
\* went in, for level, format and participation type: only other tokens are
\* mapped by keyword.
C37_VocabularyUnchanged ==
    ex.pc = "returned" =>
        /\ Canonical(ex.data.level, VALID_LEVELS)
              => ex.cleaned.level = SameList(ex.data.level)
        /\ Canonical(ex.data.participationType, VALID_PARTICIPATION)
              => ex.cleaned.participationType = SameList(ex.data.participationType)
        /\ (ex.data.format.kind = "string" /\ ex.data.format.text \in VALID_FORMATS)
              => ex.cleaned.format = ex.data.format.text

\* C38: whatever shape the provider gives pricing, normalize returns, and
\* cleaned.pricing is null or a list of at least one number; "Rp 50.000" and
\* 50000 give [50000].
C38_PricingNullOrNumbers ==
    /\ ex.pc # "threw"
    /\ ex.pc = "returned" =>
         /\ ex.cleaned.pricing.isNull \/ Len(ex.cleaned.pricing.items) > 0
         /\ (ex.data.pricing.kind = "string" /\ ex.data.pricing.text = RupiahText)
               => ex.cleaned.pricing = List(<<50000>>)
         /\ (ex.data.pricing.kind = "number" /\ ex.data.pricing.num = 50000)
               => ex.cleaned.pricing = List(<<50000>>)
         /\ (ex.data.pricing.kind \in {"null", "undefined"}
                \/ (ex.data.pricing.kind = "string"
                      /\ ex.data.pricing.text \in {<<>>, <<"g", "r", "a", "t", "i", "s">>}))
               => ex.cleaned.pricing = NoList

----------------------------------------------------------------------------
(* Claims about the errors of an Instagram run *)

\* C39: in the result of an Instagram scrape run an account is in errors
\* exactly when its last fetch of the run failed: not when its retry
\* succeeded, and also when it failed with an error that is not retried.
C39_ErrorsAreLastFailures ==
    scrape.pc \in {"judge", "returned"} =>
        \A a \in 1..Len(Accounts) :
            a \in Range(scrape.errors) <=> scrape.lastFetch[a] = "failed"

----------------------------------------------------------------------------
(* Claims about the single-function workflows *)

\* C40: the records the extraction step of a run processes are exactly the
\* records the admission step of the same run inserted, whatever another run
\* inserts in between.
C40_ExtractsOwnRecords ==
    \A r \in Runs :
        (fn[r].pc = "done" /\ fn[r].insertCount > 0)
            => Range(fn[r].fetched) = Range(fn[r].inserted)

====
